---- MODULE Spec2Model ----
(***************************************************************************)
(* CODAM 99 (src/tetris.py): a terminal multi-player falling-block game.   *)
(* Every player runs one single-threaded process; the processes talk only  *)
(* through files in one shared directory.                                  *)
(*                                                                         *)
(* Time is counted in tenths of a second (the unit of                      *)
(* STATE_PUBLISH_INTERVAL = 0.1 s), so 2.0 s is 20, 5.0 s is 50 and 30.0 s *)
(* is 300.                                                                 *)
(***************************************************************************)
EXTENDS Integers, Sequences, FiniteSets, TLC

(***************************************************************************)
(* Bounds of the model.                                                    *)
(***************************************************************************)
MaxCum == 2          \* cap of a session's cumulative-garbage counter
MaxSend == 2         \* largest garbage_to_send of one lock
MaxTime == 1         \* the clock stops here
MaxSessions == 1     \* restarts (new sessions) of all processes together
MaxJunk == 1         \* malformed files dropped into the directory
MaxPerms == 3        \* number of shuffles refill_bag chooses from
MaxDraws == 12       \* pieces popped from the bag in the bag scenario
MaxKeys == 2         \* keys handled by the loop in the game scenario
MaxRows == 4         \* lowest rows of the boards clear_lines is applied to
MaxClock == 18       \* the clock of the lock-delay scenario stops here
MaxQueue == 3        \* entries of the queues reduce_garbage_queue is applied to
MaxKo == 6           \* KO count in the attack calculation
MaxStreak == 3       \* locks of the back-to-back scenario
MaxHolds == 3        \* presses of the hold key in the hold scenario
MaxMoves == 2        \* keys pressed in the lock-delay scenario
MaxWell == 6         \* deepest well of the boards a piece is turned on
MaxLocks == 4        \* locks of the garbage-delay scenario
MaxSlack == 2        \* tenths the clock is read past a timeout

(***************************************************************************)
(* Program constants (src/tetris.py, CONFIG).                              *)
(***************************************************************************)
STATE_PUBLISH_INTERVAL == 1
STATE_STALE_TIMEOUT == 20
STATE_CLEANUP_TIMEOUT == 50
DEAD_STATE_CLEANUP_TIMEOUT == 300
GARBAGE_BUFFER_PIECES == 3

\* PLAYER of each process (get_safe_player_id)
Procs == {"a", "b", "c"}

\* the scenario of the peer protocol: one observer that scans, two peers
\* that play, attack, die and come back
Observer == "a"
Peers == {"b", "c"}

VARIABLES
    now,                     \* time.time()
    dir,                     \* the state_*.txt files of SHARED_DIR
    pc,                      \* where each process is in main()
    ret,                     \* where publish_game_state returns to
    session,                 \* history: restarts of each process so far
    junk,                    \* number of malformed files dropped so far
    cumulative_garbage_sent, \* main: cumulative_garbage_sent
    is_dead,                 \* main: is_dead
    last_state_publish,      \* main: last_state_publish
    received_garbage_from,   \* _received_garbage_from
    known_dead_players,      \* _known_dead_players
    ko_count,                \* main: ko_count
    remote_state_cache,      \* _remote_state_cache and _remote_state_timestamps
    garbage_queue,           \* garbage_queue
    enqueued,                \* history: lines passed to queue_garbage, per sender
    published,               \* history: counter of the last file created
    loc,                     \* the locals of main() of the playing process
    spawned,                 \* history: the pieces spawned, in order
    drawn,                   \* history: the pieces popped from the bag, in order
    locks,                   \* history: number of pieces locked
    last_lock,               \* history: the last lock, its boards and counts
    keys_read,               \* history: the keys counted against MaxKeys
    wire,                    \* a payload of the codec and the state decoded from it
    highscore,               \* the lines of each player's highscore_*.txt file
    queued_at                \* history: the locks done when a sender's lines were queued

vars == <<now, dir, pc, ret, session, junk, cumulative_garbage_sent, is_dead,
          last_state_publish, received_garbage_from, known_dead_players,
          ko_count, remote_state_cache, garbage_queue, enqueued, published,
          loc, spawned, drawn, locks, last_lock, keys_read, wire, highscore, queued_at>>

game == <<loc, spawned, drawn, locks, last_lock, keys_read, wire, highscore, queued_at>>

netLocal == <<cumulative_garbage_sent, is_dead, last_state_publish,
              received_garbage_from, known_dead_players, ko_count,
              remote_state_cache, garbage_queue, enqueued, published>>

(***************************************************************************)
(* State files.  A file is its name:                                       *)
(*   state_{PLAYER}_{timestamp}_{isDead}_{cumulativeGarbage}_{encoded}.txt *)
(* form tells how far the name parses, payload what decode_game_state      *)
(* makes of {encoded}.                                                     *)
(***************************************************************************)
Forms == {"ok", "few_fields", "bad_timestamp", "no_counter", "bad_counter"}
Payloads == {"ok", "undecodable", "short"}

StateFile(p, t, dead, cum) ==
    [player |-> p, ts |-> t, dead |-> dead, cum |-> cum,
     form |-> "ok", payload |-> "ok"]

\* fname.startswith(f"state_{PLAYER}_") and fname.endswith(".txt")
OwnFiles(p, files) == {f \in files : f.player = p}

\* get_remote_player_states: the name splits into its fields, float() and
\* int() succeed
Parses(f) == f.form = "ok"

DecodesAnything(f) == TRUE

\* decode_game_state returns a state, not None
Decodes(f) == f.payload = "ok"

Timeout(dead) ==
    IF dead THEN DEAD_STATE_CLEANUP_TIMEOUT ELSE STATE_STALE_TIMEOUT

CleanupTimeoutStale(dead) == Timeout(dead)

CleanupTimeout(dead) ==
    IF dead THEN DEAD_STATE_CLEANUP_TIMEOUT ELSE STATE_CLEANUP_TIMEOUT

\* the files a scan of process self removes
ScanRemoves(self, files, t) ==
    {f \in files : /\ Parses(f)
                   /\ f.player # self
                   /\ t - f.ts > Timeout(f.dead)
                   /\ t - f.ts > CleanupTimeout(f.dead)}

ScanAcceptsOwn(self, files, t) ==
    {f \in files : /\ Parses(f)
                   /\ ~(t - f.ts > Timeout(f.dead))
                   /\ Decodes(f)}

\* the files a scan of process self decodes into a state
ScanAccepts(self, files, t) ==
    {f \in files : /\ Parses(f)
                   /\ f.player # self
                   /\ ~(t - f.ts > Timeout(f.dead))
                   /\ Decodes(f)}

StateOf(f) == [ts |-> f.ts, dead |-> f.dead, cum |-> f.cum]

\* fresh_states: the most recent state per player; among equal timestamps
\* the first of the listing wins, and the listing order is arbitrary
FreshStates(self, files, t) ==
    LET acc == ScanAccepts(self, files, t)
        names == {f.player : f \in acc}
        newest(q) == {f \in acc : /\ f.player = q
                                  /\ \A g \in acc : g.player = q => g.ts <= f.ts}
    IN  {fr \in [names -> acc] : \A q \in names : fr[q] \in newest(q)}

UpdateCacheFreshOnly(cache, fresh) == [q \in DOMAIN fresh |-> StateOf(fresh[q])]

\* "Update cache with fresh states"
UpdateCache(cache, fresh) ==
    LET cachedTs(q) == IF q \in DOMAIN cache THEN cache[q].ts ELSE 0
        taken == {q \in DOMAIN fresh : fresh[q].ts >= cachedTs(q)}
    IN  [q \in DOMAIN cache \cup taken |->
            IF q \in taken THEN StateOf(fresh[q]) ELSE cache[q]]

\* "Remove stale players from cache"
DropStale(cache, t) ==
    LET keep == {q \in DOMAIN cache : ~(t - cache[q].ts > Timeout(cache[q].dead))}
    IN  [q \in keep |-> cache[q]]

\* get_remote_player_states: the returned copy of the cache
RemoteStates(cache, fresh, t) == DropStale(UpdateCache(cache, fresh), t)

AttackersOnChange(states, ledger) ==
    {q \in DOMAIN states : /\ ~states[q].dead
                           /\ states[q].cum # ledger[q]}

\* process_incoming_garbage: the players it credits
Attackers(states, ledger) ==
    {q \in DOMAIN states : /\ ~states[q].dead
                           /\ states[q].cum > ledger[q]}

NewLedgerOfDead(states, ledger) ==
    [q \in Procs |-> IF q \in DOMAIN states /\ states[q].cum > ledger[q]
                     THEN states[q].cum ELSE ledger[q]]

\* process_incoming_garbage: _received_garbage_from afterwards
NewLedger(states, ledger) ==
    [q \in Procs |-> IF q \in Attackers(states, ledger)
                     THEN states[q].cum ELSE ledger[q]]

NewGarbageWhole(states, ledger, q) == states[q].cum

\* process_incoming_garbage: new_garbage of player q
NewGarbage(states, ledger, q) == states[q].cum - ledger[q]

NewDeadUncredited(states, known) == {}

NewDeadAgain(states, known) == {q \in DOMAIN states : states[q].dead}

\* process_deaths: the players credited as new KOs
NewDead(states, known) ==
    {q \in DOMAIN states : states[q].dead /\ q \notin known}

\* queue_garbage
QueueGarbage(queue, amount, sender) ==
    IF amount <= 0 THEN queue
    ELSE Append(queue, [lines |-> amount, buf |-> GARBAGE_BUFFER_PIECES,
                        sender |-> sender])

\* all orders in which a set of players can be walked (dict order)
Orders(S) ==
    {s \in [1..Cardinality(S) -> S] : \A i, j \in 1..Cardinality(S) :
                                          i # j => s[i] # s[j]}

RECURSIVE QueueAll(_, _, _, _)
\* "for amount, sender in garbage_list: queue_garbage(amount, sender)"
QueueAll(queue, states, ledger, order) ==
    IF order = <<>> THEN queue
    ELSE QueueAll(QueueGarbage(queue, NewGarbage(states, ledger, Head(order)),
                               Head(order)),
                  states, ledger, Tail(order))


(***************************************************************************)
(* The garbage queue (entries [amount, buffer pieces, sender]).            *)
(***************************************************************************)
RECURSIVE PopFront(_, _)
\* reduce_garbage_queue: the while loop
PopFront(queue, remaining) ==
    IF remaining <= 0 \/ queue = <<>> THEN queue
    ELSE IF Head(queue).lines <= remaining
         THEN PopFront(Tail(queue), remaining - Head(queue).lines)
         ELSE <<[Head(queue) EXCEPT !.lines = @ - remaining]>> \o Tail(queue)

ReduceKeepsBuffer(queue, lines_cleared) ==
    IF lines_cleared <= 0 \/ queue = <<>> THEN queue
    ELSE PopFront(queue, lines_cleared)

\* reduce_garbage_queue
ReduceGarbageQueue(queue, lines_cleared) ==
    IF lines_cleared <= 0 \/ queue = <<>> THEN queue
    ELSE LET q == PopFront(queue, lines_cleared)
         IN  [i \in 1..Len(q) |-> [q[i] EXCEPT !.buf = @ + lines_cleared]]

ProcessOnPlacementIdle(queue) == queue

\* process_garbage_queue_on_placement
ProcessOnPlacement(queue) ==
    [i \in 1..Len(queue) |-> [queue[i] EXCEPT !.buf = @ - 1]]

NotReadyKeepsAll(queue) == queue

\* apply_ready_garbage: new_queue
NotReady(queue) == SelectSeq(queue, LAMBDA e : ~(e.buf <= 0))

RECURSIVE SumLines(_)
SumLines(queue) ==
    IF queue = <<>> THEN 0 ELSE Head(queue).lines + SumLines(Tail(queue))

\* apply_ready_garbage: total_to_apply
TotalToApply(queue) == SumLines(SelectSeq(queue, LAMBDA e : e.buf <= 0))

\* main, lines 1602-1608: the queue after a lock that cleared `cleared` lines
QueueAfterLock(queue, cleared) ==
    NotReady(ProcessOnPlacement(ReduceGarbageQueue(queue, cleared)))

(***************************************************************************)
(* The board and the pieces.  Rows and columns are counted from 0 as in    *)
(* the source: cell (row r, column c) of a matrix m is m[r + 1][c + 1].    *)
(***************************************************************************)
WIDTH == 10
HEIGHT == 20
LOCK_DELAY == 5
LOCK_DELAY_RESETS == 15
LINES_PER_SPEEDUP == 5

\* the gravity periods, in hundredths of a second (SPEEDUP_AMOUNT is 0.05 s)
TICK == 60
SPEEDUP_AMOUNT == 5
MIN_TICK == 1

PIECE_NAMES == <<"I", "O", "T", "S", "Z", "J", "L">>

PieceSet == {PIECE_NAMES[i] : i \in 1..7}

TETROMINOES ==
    [I |-> <<<<0,0,0,0>>, <<1,1,1,1>>, <<0,0,0,0>>, <<0,0,0,0>>>>,
     O |-> <<<<1,1>>, <<1,1>>>>,
     T |-> <<<<0,1,0>>, <<1,1,1>>, <<0,0,0>>>>,
     S |-> <<<<0,1,1>>, <<1,1,0>>, <<0,0,0>>>>,
     Z |-> <<<<1,1,0>>, <<0,1,1>>, <<0,0,0>>>>,
     J |-> <<<<1,0,0>>, <<1,1,1>>, <<0,0,0>>>>,
     L |-> <<<<0,0,1>>, <<1,1,1>>, <<0,0,0>>>>]

COLORS == [I |-> 1, O |-> 2, T |-> 3, S |-> 4, Z |-> 5, J |-> 6, L |-> 7]

GARBAGE_COLOR == 8

SRS_KICKS_JLSTZ ==
    [f \in {<<0,1>>, <<1,0>>, <<1,2>>, <<2,1>>, <<2,3>>, <<3,2>>, <<3,0>>, <<0,3>>} |->
        CASE f = <<0,1>> -> <<<<0,0>>, <<-1,0>>, <<-1,-1>>, <<0,2>>, <<-1,2>>>>
          [] f = <<1,0>> -> <<<<0,0>>, <<1,0>>, <<1,1>>, <<0,-2>>, <<1,-2>>>>
          [] f = <<1,2>> -> <<<<0,0>>, <<1,0>>, <<1,1>>, <<0,-2>>, <<1,-2>>>>
          [] f = <<2,1>> -> <<<<0,0>>, <<-1,0>>, <<-1,-1>>, <<0,2>>, <<-1,2>>>>
          [] f = <<2,3>> -> <<<<0,0>>, <<1,0>>, <<1,-1>>, <<0,2>>, <<1,2>>>>
          [] f = <<3,2>> -> <<<<0,0>>, <<-1,0>>, <<-1,1>>, <<0,-2>>, <<-1,-2>>>>
          [] f = <<3,0>> -> <<<<0,0>>, <<-1,0>>, <<-1,1>>, <<0,-2>>, <<-1,-2>>>>
          [] f = <<0,3>> -> <<<<0,0>>, <<1,0>>, <<1,-1>>, <<0,2>>, <<1,2>>>>]

SRS_KICKS_I ==
    [f \in {<<0,1>>, <<1,0>>, <<1,2>>, <<2,1>>, <<2,3>>, <<3,2>>, <<3,0>>, <<0,3>>} |->
        CASE f = <<0,1>> -> <<<<0,0>>, <<-2,0>>, <<1,0>>, <<-2,-1>>, <<1,2>>>>
          [] f = <<1,0>> -> <<<<0,0>>, <<2,0>>, <<-1,0>>, <<2,1>>, <<-1,-2>>>>
          [] f = <<1,2>> -> <<<<0,0>>, <<-1,0>>, <<2,0>>, <<-1,2>>, <<2,-1>>>>
          [] f = <<2,1>> -> <<<<0,0>>, <<1,0>>, <<-2,0>>, <<1,-2>>, <<-2,1>>>>
          [] f = <<2,3>> -> <<<<0,0>>, <<2,0>>, <<-1,0>>, <<2,1>>, <<-1,-2>>>>
          [] f = <<3,2>> -> <<<<0,0>>, <<-2,0>>, <<1,0>>, <<-2,-1>>, <<1,2>>>>
          [] f = <<3,0>> -> <<<<0,0>>, <<1,0>>, <<-2,0>>, <<1,-2>>, <<-2,1>>>>
          [] f = <<0,3>> -> <<<<0,0>>, <<-1,0>>, <<2,0>>, <<-1,2>>, <<2,-1>>>>]

\* len(shape), len(shape[0])
Rows(shape) == Len(shape)
Cols(shape) == Len(shape[1])

\* rotate_matrix: zip(*shape[::-1])
rotate_matrix(shape) ==
    [i \in 1..Cols(shape) |->
        [j \in 1..Rows(shape) |-> shape[Rows(shape) + 1 - j][i]]]

\* rotate_matrix_ccw: zip(*shape)[::-1]
rotate_matrix_ccw(shape) ==
    [i \in 1..Cols(shape) |->
        [j \in 1..Rows(shape) |-> shape[j][Cols(shape) + 1 - i]]]

RECURSIVE rotate_piece(_, _)
rotate_piece(shape, times) ==
    IF times % 4 = 0 THEN shape
    ELSE rotate_matrix(rotate_piece(shape, (times % 4) - 1))

EmptyRow == [c \in 1..WIDTH |-> 0]

new_board == [r \in 1..HEIGHT |-> EmptyRow]

\* the filled cells of a shape put at (x, y), as <<column, row>> pairs
Cells(shape, x, y) ==
    {<<x + c - 1, y + r - 1>> :
        <<r, c>> \in {rc \in (1..Rows(shape)) \X (1..Cols(shape)) :
                         shape[rc[1]][rc[2]] # 0}}

collide(board, shape, x, y) ==
    \E cell \in Cells(shape, x, y) :
        \/ cell[1] < 0 \/ cell[1] >= WIDTH \/ cell[2] >= HEIGHT
        \/ cell[2] >= 0 /\ board[cell[2] + 1][cell[1] + 1] # 0

\* lock: the colour goes into every filled cell of the shape with row >= 0
lock(board, shape, x, y, color) ==
    LET cells == Cells(shape, x, y)
    IN  [r \in 1..Len(board) |->
            IF r - 1 < y \/ r - 1 >= y + Rows(shape) THEN board[r]
            ELSE [c \in 1..Len(board[r]) |->
                     IF <<c - 1, r - 1>> \in cells THEN color ELSE board[r][c]]]

\* all(row)
RowFull(row) == \A c \in 1..Len(row) : row[c] # 0

\* clear_lines: [row for row in board if not all(row)]
Survivors(board) == SelectSeq(board, LAMBDA row : ~RowFull(row))

\* clear_lines: cleared
Cleared(board) == HEIGHT - Len(Survivors(board))

ClearLinesPadBelow(board) ==
    Survivors(board) \o [r \in 1..Cleared(board) |-> EmptyRow]

\* clear_lines: new, after new.insert(0, [0]*WIDTH) until it has HEIGHT rows
clear_lines(board) ==
    [r \in 1..Cleared(board) |-> EmptyRow] \o Survivors(board)

check_perfect_clear(board) ==
    \A r \in 1..Len(board) : \A c \in 1..Len(board[r]) : board[r][c] = 0

\* add_garbage: garbage_line with its hole
GarbageLine(hole_pos) ==
    [c \in 1..WIDTH |-> IF c - 1 # hole_pos THEN GARBAGE_COLOR ELSE 0]

PushGarbageKeeping(board, hole_pos) == Append(board, GarbageLine(hole_pos))

\* add_garbage: board.pop(0) ... board.append(garbage_line)
PushGarbage(board, hole_pos) == Append(Tail(board), GarbageLine(hole_pos))

RECURSIVE add_garbage(_, _)
\* add_garbage(board, n) with the hole positions it draws, holes[1] first
add_garbage(board, holes) ==
    IF holes = <<>> THEN board
    ELSE add_garbage(PushGarbage(board, Head(holes)), Tail(holes))

(***************************************************************************)
(* Spin detection, rotation with wall kicks, attack table.                 *)
(***************************************************************************)
CornerFilled(board, check_x, check_y) ==
    IF check_x < 0 \/ check_x >= WIDTH \/ check_y >= HEIGHT THEN TRUE
    ELSE check_y >= 0 /\ board[check_y + 1][check_x + 1] # 0

get_front_corners_for_t(rotation) ==
    CASE rotation % 4 = 0 -> {<<-1, -1>>, <<1, -1>>}
      [] rotation % 4 = 1 -> {<<1, -1>>, <<1, 1>>}
      [] rotation % 4 = 2 -> {<<-1, 1>>, <<1, 1>>}
      [] rotation % 4 = 3 -> {<<-1, -1>>, <<-1, 1>>}

CheckTspinTwoCorners(board, x, y, rotation) ==
    LET corners == {<<-1, -1>>, <<1, -1>>, <<-1, 1>>, <<1, 1>>}
        filled == {d \in corners : CornerFilled(board, x + 1 + d[1], y + 1 + d[2])}
        front_filled == Cardinality(get_front_corners_for_t(rotation) \cap filled)
    IN  IF Cardinality(filled) < 2 THEN <<FALSE, FALSE>>
        ELSE <<TRUE, front_filled < 2>>

\* check_tspin: <<is_tspin, is_mini>>
check_tspin(board, x, y, rotation) ==
    LET corners == {<<-1, -1>>, <<1, -1>>, <<-1, 1>>, <<1, 1>>}
        filled == {d \in corners : CornerFilled(board, x + 1 + d[1], y + 1 + d[2])}
        front_filled == Cardinality(get_front_corners_for_t(rotation) \cap filled)
    IN  IF Cardinality(filled) < 3 THEN <<FALSE, FALSE>>
        ELSE <<TRUE, front_filled < 2>>

\* check_spin: <<spin_type, is_mini>>, "" for None
check_spin(board, x, y, piece_name, rotation, kick_idx) ==
    IF piece_name = "O" THEN <<"", FALSE>>
    ELSE IF piece_name = "T"
    THEN LET t == check_tspin(board, x, y, rotation)
         IN  IF t[1] THEN <<"T-SPIN", IF kick_idx = 4 THEN FALSE ELSE t[2]>>
             ELSE <<"", FALSE>>
    ELSE IF kick_idx = 0 THEN <<"", FALSE>>
    ELSE <<piece_name \o "-SPIN", TRUE>>

NoRotation == [ok |-> FALSE]

RECURSIVE FirstKick(_, _, _, _, _, _, _)
\* try_rotation: the loop over the kicks, from index i on
FirstKick(board, new_shape, x, y, new_rotation, kicks, i) ==
    IF i > Len(kicks) THEN NoRotation
    ELSE IF ~collide(board, new_shape, x + kicks[i][1], y + kicks[i][2])
         THEN [ok |-> TRUE, shape |-> new_shape, x |-> x + kicks[i][1],
               y |-> y + kicks[i][2], rotation |-> new_rotation, kick |-> i - 1]
         ELSE FirstKick(board, new_shape, x, y, new_rotation, kicks, i + 1)

TryRotationUnkicked(board, shape, x, y, piece_name, current_rotation, clockwise) ==
    IF piece_name = "O" THEN NoRotation
    ELSE LET new_rotation == (current_rotation + (IF clockwise THEN 1 ELSE 3)) % 4
             new_shape == IF clockwise THEN rotate_matrix(shape)
                          ELSE rotate_matrix_ccw(shape)
         IN  FirstKick(board, new_shape, x, y, new_rotation, <<<<0, 0>>>>, 1)

try_rotation(board, shape, x, y, piece_name, current_rotation, clockwise) ==
    IF piece_name = "O" THEN NoRotation
    ELSE LET new_rotation == (current_rotation + (IF clockwise THEN 1 ELSE 3)) % 4
             new_shape == IF clockwise THEN rotate_matrix(shape)
                          ELSE rotate_matrix_ccw(shape)
             kick_table == IF piece_name = "I" THEN SRS_KICKS_I ELSE SRS_KICKS_JLSTZ
             kicks == kick_table[<<current_rotation, new_rotation>>]
         IN  FirstKick(board, new_shape, x, y, new_rotation, kicks, 1)

\* a dict's .get(lines_cleared, 0)
Get(table, lines_cleared) ==
    IF lines_cleared \in DOMAIN table THEN table[lines_cleared] ELSE 0

CalculateGarbageLinear(lines_cleared, spin_type, is_mini, back_to_back, is_perfect_clear) ==
    IF lines_cleared = 0 THEN 0
    ELSE IF is_perfect_clear THEN 10
    ELSE LET base_garbage ==
                 IF spin_type = "T-SPIN"
                 THEN (IF is_mini THEN Get(<<0, 1, 2>>, lines_cleared)
                       ELSE Get(<<2, 4, 6>>, lines_cleared))
                 ELSE IF spin_type \in {"S-SPIN", "Z-SPIN", "I-SPIN", "J-SPIN", "L-SPIN"}
                 THEN (IF is_mini THEN Get(<<0, 1, 2, 3>>, lines_cleared)
                       ELSE Get(<<2, 4, 6, 8>>, lines_cleared))
                 ELSE Get(<<0, 1, 2, 3>>, lines_cleared)
         IN  IF back_to_back /\ base_garbage > 0 THEN base_garbage + 1
             ELSE base_garbage

\* calculate_garbage
calculate_garbage(lines_cleared, spin_type, is_mini, back_to_back, is_perfect_clear) ==
    IF lines_cleared = 0 THEN 0
    ELSE IF is_perfect_clear THEN 10
    ELSE LET base_garbage ==
                 IF spin_type = "T-SPIN"
                 THEN (IF is_mini THEN Get(<<0, 1, 2>>, lines_cleared)
                       ELSE Get(<<2, 4, 6>>, lines_cleared))
                 ELSE IF spin_type \in {"S-SPIN", "Z-SPIN", "I-SPIN", "J-SPIN", "L-SPIN"}
                 THEN (IF is_mini THEN Get(<<0, 1, 2, 4>>, lines_cleared)
                       ELSE Get(<<2, 4, 6, 8>>, lines_cleared))
                 ELSE Get(<<0, 1, 2, 4>>, lines_cleared)
         IN  IF back_to_back /\ base_garbage > 0 THEN base_garbage + 1
             ELSE base_garbage

ApplyKoIncrementOnly(base_garbage, kos) ==
    IF base_garbage <= 0 THEN 0
    ELSE LET product == (base_garbage * kos) \div 5
         IN  IF product > 1 THEN product ELSE 1

\* apply_ko_multiplier: int(base_garbage * (1.0 + ko_count * 0.2)); for the
\* bases of calculate_garbage (at most 11) and the KO counts considered the
\* float product has the integer part of the exact one
apply_ko_multiplier(base_garbage, kos) ==
    IF base_garbage <= 0 THEN 0
    ELSE LET product == (base_garbage * (5 + kos)) \div 5
         IN  IF product > 1 THEN product ELSE 1

(***************************************************************************)
(* The state codec: 815 bits, packed into bytes, written in URL-safe       *)
(* base64 without padding.  A bit list is a sequence of 0s and 1s, an      *)
(* encoded payload a sequence of characters.                               *)
(***************************************************************************)
\* the alphabet of base64.urlsafe_b64encode
B64_ALPHABET ==
    <<"A", "B", "C", "D", "E", "F", "G", "H", "I", "J", "K", "L", "M",
      "N", "O", "P", "Q", "R", "S", "T", "U", "V", "W", "X", "Y", "Z",
      "a", "b", "c", "d", "e", "f", "g", "h", "i", "j", "k", "l", "m",
      "n", "o", "p", "q", "r", "s", "t", "u", "v", "w", "x", "y", "z",
      "0", "1", "2", "3", "4", "5", "6", "7", "8", "9", "-", "_">>

\* the value of a character of the alphabet
B64Value ==
    [ch \in {B64_ALPHABET[i] : i \in 1..64} |->
        (CHOOSE i \in 1..64 : B64_ALPHABET[i] = ch) - 1]

\* (v >> i) & 1
Bit(v, i) == (v \div (2 ^ i)) % 2

\* max(lo, min(hi, v))
Clamp(v, lo, hi) == IF v < lo THEN lo ELSE IF v > hi THEN hi ELSE v

\* PIECE_NAMES.index(piece_name) if piece_name in PIECE_NAMES else 0
PieceIndex(piece_name) ==
    IF \E i \in 1..Len(PIECE_NAMES) : PIECE_NAMES[i] = piece_name
    THEN (CHOOSE i \in 1..Len(PIECE_NAMES) : PIECE_NAMES[i] = piece_name) - 1
    ELSE 0

\* encode_game_state: bits
EncodeBits(board, piece_name, rotation, piece_x, piece_y) ==
    LET cells == Len(board) * Len(board[1])
        piece_idx == PieceIndex(piece_name)
        rot == rotation % 4
        x_enc == Clamp(piece_x + 4, 0, 31)
        y_enc == Clamp(piece_y + 4, 0, 31)
    IN  [k \in 1..(4 * cells + 15) |->
            IF k <= 4 * cells
            THEN LET idx == (k - 1) \div 4
                     cell == board[(idx \div Len(board[1])) + 1]
                                  [(idx % Len(board[1])) + 1]
                 IN  Bit(Clamp(cell, 0, 15), 3 - ((k - 1) % 4))
            ELSE LET j == k - 4 * cells
                 IN  IF j <= 3 THEN Bit(piece_idx, 3 - j)
                     ELSE IF j <= 5 THEN Bit(rot, 5 - j)
                     ELSE IF j <= 10 THEN Bit(x_enc, 10 - j)
                     ELSE Bit(y_enc, 15 - j)]

\* bits[k], 0 past the end
BitAt(bits, k) == IF k <= Len(bits) THEN bits[k] ELSE 0

PackBytesLowFirst(bits) ==
    [b \in 1..((Len(bits) + 7) \div 8) |->
        LET at(j) == BitAt(bits, 8 * (b - 1) + j + 1)
        IN  at(7) * 128 + at(6) * 64 + at(5) * 32 + at(4) * 16
            + at(3) * 8 + at(2) * 4 + at(1) * 2 + at(0)]

\* encode_game_state: byte_array
PackBytes(bits) ==
    [b \in 1..((Len(bits) + 7) \div 8) |->
        LET at(j) == BitAt(bits, 8 * (b - 1) + j + 1)
        IN  at(0) * 128 + at(1) * 64 + at(2) * 32 + at(3) * 16
            + at(4) * 8 + at(5) * 4 + at(6) * 2 + at(7)]

\* bit p (from 1) of the bit stream of a byte string, 0 past its end
StreamBit(bytes, p) ==
    IF (p - 1) \div 8 < Len(bytes)
    THEN Bit(bytes[((p - 1) \div 8) + 1], 7 - ((p - 1) % 8))
    ELSE 0

\* base64.urlsafe_b64encode(...).decode('ascii').rstrip('=')
B64Encode(bytes) ==
    [k \in 1..((8 * Len(bytes) + 5) \div 6) |->
        LET at(j) == StreamBit(bytes, 6 * (k - 1) + j + 1)
        IN  B64_ALPHABET[at(0) * 32 + at(1) * 16 + at(2) * 8 + at(3) * 4
                         + at(4) * 2 + at(5) + 1]]

encode_game_state(board, piece_name, rotation, piece_x, piece_y) ==
    B64Encode(PackBytes(EncodeBits(board, piece_name, rotation,
                                   piece_x, piece_y)))

\* base64.urlsafe_b64decode of the payload padded with '=': the bytes, or
\* Undecodable where it raises (one character left over)
Undecodable == <<-1>>

B64Decode(encoded) ==
    IF Len(encoded) % 4 = 1 THEN Undecodable
    ELSE LET sextet(p) == Bit(B64Value[encoded[((p - 1) \div 6) + 1]],
                              5 - ((p - 1) % 6))
         IN  [b \in 1..((6 * Len(encoded)) \div 8) |->
                 LET at(j) == sextet(8 * (b - 1) + j + 1)
                 IN  at(0) * 128 + at(1) * 64 + at(2) * 32 + at(3) * 16
                     + at(4) * 8 + at(5) * 4 + at(6) * 2 + at(7)]

\* decode_game_state: bits
UnpackBits(bytes) ==
    [k \in 1..(8 * Len(bytes)) |-> StreamBit(bytes, k)]

\* the number read from n bits after position at
Field(bits, at, n) ==
    LET RECURSIVE value(_)
        value(i) == IF i = 0 THEN 0 ELSE 2 * value(i - 1) + bits[at + i]
    IN  value(n)

NoState == [piece_name |-> ""]

\* decode_game_state; NoState for None
decode_game_state(encoded) ==
    LET byte_array == B64Decode(encoded)
        bits == UnpackBits(byte_array)
    IN  IF byte_array = Undecodable \/ Len(bits) < 815 THEN NoState
        ELSE LET piece_idx == Field(bits, 4 * HEIGHT * WIDTH, 3)
                 piece_name == IF piece_idx < Len(PIECE_NAMES)
                               THEN PIECE_NAMES[piece_idx + 1] ELSE "I"
                 rotation == Field(bits, 4 * HEIGHT * WIDTH + 3, 2)
             IN  [board |-> [r \in 1..HEIGHT |-> [c \in 1..WIDTH |->
                                Field(bits, 4 * ((r - 1) * WIDTH + (c - 1)), 4)]],
                  piece_name |-> piece_name,
                  rotation |-> rotation,
                  piece_x |-> Field(bits, 4 * HEIGHT * WIDTH + 5, 5) - 4,
                  piece_y |-> Field(bits, 4 * HEIGHT * WIDTH + 10, 5) - 4,
                  shape |-> rotate_piece(TETROMINOES[piece_name], rotation),
                  color |-> COLORS[piece_name]]

(***************************************************************************)
(* main(): the locals of the playing process, its first piece, the bag.    *)
(***************************************************************************)
Me == "a"

\* refill_bag: random.shuffle of the seven names; the shuffles considered
Shuffles ==
    << <<"I", "O", "T", "S", "Z", "J", "L">>,
       <<"L", "J", "Z", "S", "T", "O", "I">>,
       <<"T", "I", "L", "O", "S", "J", "Z">>,
       <<"O", "I", "J", "T", "L", "Z", "S">>,
       <<"Z", "S", "I", "L", "O", "T", "J">> >>

refill_bag ==
    {Shuffles[i] : i \in 1..(IF MaxPerms < Len(Shuffles) THEN MaxPerms
                             ELSE Len(Shuffles))}

RefillAlways(bag, perm) == perm

\* "if not piece_bag: piece_bag.extend(refill_bag())"
Refill(bag, perm) == IF bag = <<>> THEN perm ELSE bag

\* what refill_bag may return to a pop of this bag: it is called when the
\* bag is empty before or after the pop, and not otherwise
Refills(bag) == IF Len(bag) <= 1 THEN refill_bag ELSE {bag}

PopBagKeeps(bag) == bag

\* piece_bag.pop(0): the bag afterwards
PopBag(bag) == Tail(bag)

\* WIDTH // 2 - len(shape[0]) // 2
SpawnX(shape) == (WIDTH \div 2) - (Cols(shape) \div 2)

None == -1

\* lines 1357-1394: the first piece; a shape whose top row is empty is
\* rolled up until it is not
RECURSIVE RollUp(_)
RollUp(shape) ==
    IF \E c \in 1..Cols(shape) : shape[1][c] # 0 THEN shape
    ELSE RollUp(Tail(shape) \o <<Head(shape)>>)

FirstLocals(perm, board) ==
    [board |-> board,
     piece_bag |-> Refill(PopBag(perm), perm),
     current_piece_name |-> Head(perm),
     current_rotation |-> 0,
     shape |-> RollUp(TETROMINOES[Head(perm)]),
     x |-> SpawnX(TETROMINOES[Head(perm)]),
     y |-> -1,
     held_piece_name |-> "",
     can_hold |-> TRUE,
     lock_delay_start |-> None,
     lock_delay_resets |-> 0,
     last_rotation_kick |-> 0,
     last_rotation_direction |-> "",
     last_action_was_rotation |-> FALSE,
     back_to_back |-> FALSE,
     total_lines |-> 0,
     last_tick |-> 0,
     current_time |-> 0,
     cleared |-> 0,
     spin_type |-> "",
     is_mini |-> FALSE,
     is_perfect |-> FALSE,
     is_difficult |-> FALSE,
     base_garbage |-> 0,
     garbage_to_send |-> 0]

\* spawn_new_piece: the locals afterwards
spawn_new_piece(l, perm) ==
    LET bag == Refill(l.piece_bag, perm)
        name == Head(bag)
    IN  [l EXCEPT !.piece_bag = Refill(PopBag(bag), perm),
                  !.current_piece_name = name,
                  !.current_rotation = 0,
                  !.shape = TETROMINOES[name],
                  !.x = SpawnX(TETROMINOES[name]),
                  !.y = -1,
                  !.can_hold = TRUE,
                  !.lock_delay_start = None,
                  !.lock_delay_resets = 0,
                  !.last_rotation_kick = 0,
                  !.last_rotation_direction = "",
                  !.last_action_was_rotation = FALSE]

\* spawn_new_piece: its result
SpawnOk(l) == ~collide(l.board, l.shape, l.x, l.y + 1)

HoldAgain(l, perm) ==
    LET first == l.held_piece_name = ""
        bag == Refill(l.piece_bag, perm)
        name == IF first THEN Head(bag) ELSE l.held_piece_name
    IN  [l EXCEPT !.held_piece_name = l.current_piece_name,
                  !.piece_bag = IF first THEN Refill(PopBag(bag), perm) ELSE @,
                  !.current_piece_name = name,
                  !.current_rotation = 0,
                  !.shape = TETROMINOES[name],
                  !.x = SpawnX(TETROMINOES[name]),
                  !.y = -1,
                  !.can_hold = FALSE,
                  !.lock_delay_start = None,
                  !.lock_delay_resets = 0,
                  !.last_rotation_kick = 0,
                  !.last_rotation_direction = "",
                  !.last_action_was_rotation = FALSE]

\* lines 1493-1519: the hold key
Hold(l, perm) ==
    IF ~l.can_hold THEN l
    ELSE LET first == l.held_piece_name = ""
             bag == Refill(l.piece_bag, perm)
             name == IF first THEN Head(bag) ELSE l.held_piece_name
         IN  [l EXCEPT !.held_piece_name = l.current_piece_name,
                       !.piece_bag = IF first THEN Refill(PopBag(bag), perm) ELSE @,
                       !.current_piece_name = name,
                       !.current_rotation = 0,
                       !.shape = TETROMINOES[name],
                       !.x = SpawnX(TETROMINOES[name]),
                       !.y = -1,
                       !.can_hold = FALSE,
                       !.lock_delay_start = None,
                       !.lock_delay_resets = 0,
                       !.last_rotation_kick = 0,
                       !.last_rotation_direction = "",
                       !.last_action_was_rotation = FALSE]

\* whether the hold key pops the bag
HoldDraws(l) == l.can_hold /\ l.held_piece_name = ""

(***************************************************************************)
(* Start of a process: module globals and the locals of main().            *)
(***************************************************************************)
NoStates == [q \in {} |-> 0]
ZeroLedger == [q \in Procs |-> 0]

InitNet ==
    /\ now = 0
    /\ dir = {}
    /\ pc = [p \in Procs |-> "loop"]
    /\ ret = [p \in Procs |-> "loop"]
    /\ session = [p \in Procs |-> 0]
    /\ junk = 0
    /\ cumulative_garbage_sent = [p \in Procs |-> 0]
    /\ is_dead = [p \in Procs |-> FALSE]
    /\ last_state_publish = [p \in Procs |-> 0]
    /\ received_garbage_from = [p \in Procs |-> ZeroLedger]
    /\ known_dead_players = [p \in Procs |-> {}]
    /\ ko_count = [p \in Procs |-> 0]
    /\ remote_state_cache = [p \in Procs |-> NoStates]
    /\ garbage_queue = [p \in Procs |-> <<>>]
    /\ enqueued = [p \in Procs |-> ZeroLedger]
    /\ published = [p \in Procs |-> 0]

\* nothing queued yet
NeverQueued == [p \in Procs |-> ZeroLedger]

\* no highscore file yet
NoScores == [p \in Procs |-> 0]

\* nothing encoded yet
NoWire == [encoded |-> <<>>, decoded |-> FALSE, state |-> NoState]

\* before the first lock
NoLock == [locked |-> new_board, swept |-> new_board, cleared |-> 0,
           applied |-> 0, before |-> [current_piece_name |-> ""],
           after |-> [current_piece_name |-> ""]]

\* the game starts on the empty board with the first piece of a shuffle
InitGame(perm, board) ==
    /\ loc = FirstLocals(perm, board)
    /\ spawned = <<Head(perm)>>
    /\ drawn = <<Head(perm)>>
    /\ locks = 0
    /\ last_lock = NoLock
    /\ keys_read = 0
    /\ wire = NoWire /\ highscore = NoScores /\ queued_at = NeverQueued

Init == InitNet /\ InitGame(Shuffles[1], new_board)

(***************************************************************************)
(* publish_game_state, in its two file-system steps.                       *)
(***************************************************************************)
PublishRemovesNothing(p, files) == {}

\* the files publish_game_state and cleanup_state_file remove
PublishRemoves(p, files) == OwnFiles(p, files)

PublishedCounterBefore(p) == published[p]

\* the counter written into the file name
PublishedCounter(p) == cumulative_garbage_sent[p]

\* "Publish state regularly": the listing and the removal of the old files
PublishDelete(p) ==
    /\ pc[p] = "loop"
    /\ now - last_state_publish[p] >= STATE_PUBLISH_INTERVAL
    /\ last_state_publish' = [last_state_publish EXCEPT ![p] = now]
    /\ dir' = dir \ PublishRemoves(p, dir)
    /\ pc' = [pc EXCEPT ![p] = "publish"]
    /\ ret' = [ret EXCEPT ![p] = "loop"]
    /\ UNCHANGED <<now, session, junk, cumulative_garbage_sent, is_dead,
                   received_garbage_from, known_dead_players, ko_count,
                   remote_state_cache, garbage_queue, enqueued, published>>
    /\ UNCHANGED game

\* open(f"{SHARED_DIR}/{filename}", "w").close()
PublishCreate(p) ==
    /\ pc[p] = "publish"
    /\ dir' = dir \cup {StateFile(p, now, is_dead[p], PublishedCounter(p))}
    /\ published' = [published EXCEPT ![p] = PublishedCounter(p)]
    /\ pc' = [pc EXCEPT ![p] = ret[p]]
    /\ UNCHANGED <<now, ret, session, junk, cumulative_garbage_sent, is_dead,
                   last_state_publish, received_garbage_from,
                   known_dead_players, ko_count, remote_state_cache,
                   garbage_queue, enqueued>>
    /\ UNCHANGED game

(***************************************************************************)
(* A piece lock, seen from the protocol: the lines it cleared and its      *)
(* garbage_to_send are inputs, and so is the outcome of spawn_new_piece.   *)
(***************************************************************************)
SetSent(counter, garbage_to_send) == garbage_to_send

\* cumulative_garbage_sent += garbage_to_send
AddSent(counter, garbage_to_send) == counter + garbage_to_send

\* lines 1595-1600: the lock sends garbage and publishes immediately
LockSend(p, garbage_to_send) ==
    /\ pc[p] = "loop"
    /\ garbage_to_send > 0
    /\ AddSent(cumulative_garbage_sent[p], garbage_to_send) <= MaxCum
    /\ cumulative_garbage_sent' =
           [cumulative_garbage_sent EXCEPT ![p] = AddSent(@, garbage_to_send)]
    /\ dir' = dir \ PublishRemoves(p, dir)
    /\ pc' = [pc EXCEPT ![p] = "publish"]
    /\ ret' = [ret EXCEPT ![p] = "lock_sent"]
    /\ UNCHANGED <<now, session, junk, is_dead, last_state_publish,
                   received_garbage_from, known_dead_players, ko_count,
                   remote_state_cache, garbage_queue, enqueued, published>>
    /\ UNCHANGED game

\* lines 1602-1616: the queue is reduced, aged and drained, the next piece
\* spawns; if it collides the process dies and publishes its last state
LockFinish(p, from, cleared, spawns) ==
    /\ pc[p] = from
    /\ garbage_queue' =
           [garbage_queue EXCEPT ![p] = QueueAfterLock(@, cleared)]
    /\ IF spawns
       THEN /\ pc' = [pc EXCEPT ![p] = "loop"]
            /\ UNCHANGED <<dir, ret, is_dead>>
       ELSE /\ is_dead' = [is_dead EXCEPT ![p] = TRUE]
            /\ dir' = dir \ PublishRemoves(p, dir)
            /\ pc' = [pc EXCEPT ![p] = "publish"]
            /\ ret' = [ret EXCEPT ![p] = "exit"]
    /\ UNCHANGED <<now, session, junk, cumulative_garbage_sent,
                   last_state_publish, received_garbage_from,
                   known_dead_players, ko_count, remote_state_cache,
                   enqueued, published>>
    /\ UNCHANGED game

\* a lock with garbage_to_send = 0 (it may still clear lines)
LockQuiet(p, cleared, spawns) == LockFinish(p, "loop", cleared, spawns)

\* the rest of a lock that sent garbage (it cleared at least one line)
LockSent(p, cleared, spawns) ==
    cleared > 0 /\ LockFinish(p, "lock_sent", cleared, spawns)

\* lines 1448-1451: the quit key
Quit(p) ==
    /\ pc[p] = "loop"
    /\ is_dead' = [is_dead EXCEPT ![p] = TRUE]
    /\ dir' = dir \ PublishRemoves(p, dir)
    /\ pc' = [pc EXCEPT ![p] = "publish"]
    /\ ret' = [ret EXCEPT ![p] = "exit"]
    /\ UNCHANGED <<now, session, junk, cumulative_garbage_sent,
                   last_state_publish, received_garbage_from,
                   known_dead_players, ko_count, remote_state_cache,
                   garbage_queue, enqueued, published>>
    /\ UNCHANGED game

SaveHighscoreNever(existing_best, lines_sent) == existing_best

\* save_highscore: the best lines on file afterwards (0: no file); main
\* passes total_lines_sent, which equals cumulative_garbage_sent
save_highscore(existing_best, lines_sent) ==
    IF lines_sent > existing_best THEN lines_sent ELSE existing_best

\* save_highscore(); cleanup_state_file(); break  (and the finally clause)
Exit(p) ==
    /\ pc[p] = "exit"
    /\ highscore' = [highscore EXCEPT ![p] = save_highscore(@, PublishedCounter(p))]
    /\ dir' = dir \ PublishRemoves(p, dir)
    /\ pc' = [pc EXCEPT ![p] = "done"]
    /\ UNCHANGED <<now, ret, session, junk, netLocal>>
    /\ UNCHANGED <<loc, spawned, drawn, locks, last_lock, keys_read, wire,
                   queued_at>>

(***************************************************************************)
(* "Read remote states and process garbage/deaths" (lines 1619-1633).      *)
(***************************************************************************)
Scan(p) ==
    /\ pc[p] = "loop"
    /\ \E fresh \in FreshStates(p, dir, now) :
         LET states == RemoteStates(remote_state_cache[p], fresh, now)
             ledger == received_garbage_from[p]
             att == Attackers(states, ledger)
             dead == NewDead(states, known_dead_players[p])
         IN  /\ dir' = dir \ ScanRemoves(p, dir, now)
             /\ remote_state_cache' = [remote_state_cache EXCEPT ![p] = states]
             /\ received_garbage_from' =
                    [received_garbage_from EXCEPT ![p] = NewLedger(states, ledger)]
             /\ \E order \in Orders(att) :
                    garbage_queue' = [garbage_queue EXCEPT
                        ![p] = QueueAll(@, states, ledger, order)]
             /\ enqueued' = [enqueued EXCEPT ![p] =
                    [q \in Procs |-> IF q \in att
                                     THEN @[q] + NewGarbage(states, ledger, q)
                                     ELSE @[q]]]
             /\ known_dead_players' =
                    [known_dead_players EXCEPT ![p] = @ \cup dead]
             /\ ko_count' = [ko_count EXCEPT ![p] = @ + Cardinality(dead)]
             /\ queued_at' = [queued_at EXCEPT ![p] =
                    [q \in Procs |-> IF q \in att THEN locks ELSE @[q]]]
    /\ UNCHANGED <<now, pc, ret, session, junk, cumulative_garbage_sent,
                   is_dead, last_state_publish, published>>
    /\ UNCHANGED <<loc, spawned, drawn, locks, last_lock, keys_read, wire,
                   highscore>>

(***************************************************************************)
(* The environment: time, kills, restarts and foreign files.               *)
(***************************************************************************)
TimeSteps == {1, STATE_STALE_TIMEOUT + 1}

Advance(d) ==
    /\ now + d <= MaxTime
    /\ now' = now + d
    /\ UNCHANGED <<dir, pc, ret, session, junk, netLocal>>
    /\ UNCHANGED game

RECURSIVE SumOver(_, _)
SumOver(f, S) ==
    IF S = {} THEN 0
    ELSE LET x == CHOOSE x \in S : TRUE IN f[x] + SumOver(f, S \ {x})

Restarts == SumOver(session, Procs)

\* the player starts the program again: fresh globals, fresh main()
Restart(p) ==
    /\ pc[p] = "done"
    /\ Restarts < MaxSessions
    /\ session' = [session EXCEPT ![p] = @ + 1]
    /\ pc' = [pc EXCEPT ![p] = "loop"]
    /\ ret' = [ret EXCEPT ![p] = "loop"]
    /\ cumulative_garbage_sent' = [cumulative_garbage_sent EXCEPT ![p] = 0]
    /\ is_dead' = [is_dead EXCEPT ![p] = FALSE]
    /\ last_state_publish' = [last_state_publish EXCEPT ![p] = now]
    /\ received_garbage_from' = [received_garbage_from EXCEPT ![p] = ZeroLedger]
    /\ known_dead_players' = [known_dead_players EXCEPT ![p] = {}]
    /\ ko_count' = [ko_count EXCEPT ![p] = 0]
    /\ remote_state_cache' = [remote_state_cache EXCEPT ![p] = NoStates]
    /\ garbage_queue' = [garbage_queue EXCEPT ![p] = <<>>]
    /\ enqueued' = [enqueued EXCEPT ![p] = ZeroLedger]
    /\ published' = [published EXCEPT ![p] = 0]
    /\ queued_at' = [queued_at EXCEPT ![p] = ZeroLedger]
    /\ UNCHANGED <<now, dir, junk>>
    /\ UNCHANGED <<loc, spawned, drawn, locks, last_lock, keys_read, wire,
                   highscore>>

\* a file that is not a valid state file: its name or its payload is
\* malformed; what can be read of it claims a dead player and a counter
\* above every real one
JunkFiles(t) ==
    {[player |-> q, ts |-> t, dead |-> TRUE, cum |-> MaxCum + 1,
      form |-> fm, payload |-> "ok"] :
        q \in Peers, fm \in Forms \ {"ok"}}
    \cup
    {[player |-> q, ts |-> t, dead |-> TRUE, cum |-> MaxCum + 1,
      form |-> "ok", payload |-> pl] :
        q \in Peers, pl \in Payloads \ {"ok"}}

DropJunk(f) ==
    /\ junk < MaxJunk
    /\ junk' = junk + 1
    /\ dir' = dir \cup {f}
    /\ UNCHANGED <<now, pc, ret, session, netLocal>>
    /\ UNCHANGED game

Clears == {0, 1, 4}

\* two peers attack while the observer scans
NextNet ==
    \/ \E p \in Peers : PublishDelete(p)
    \/ \E p \in Peers : PublishCreate(p)
    \/ \E p \in Peers, g \in 1..MaxSend : LockSend(p, g)
    \/ \E p \in Peers, c \in Clears : LockSent(p, c, TRUE)
    \/ Scan(Observer)
    \/ \E d \in TimeSteps : Advance(d)

SpecNet == Init /\ [][NextNet]_vars

\* one peer plays, attacks, tops out or quits, and comes back, while the
\* observer scans
NextLife ==
    \/ PublishDelete("b")
    \/ PublishCreate("b")
    \/ \E g \in 1..MaxSend : LockSend("b", g)
    \/ \E s \in BOOLEAN : LockQuiet("b", 0, s)
    \/ \E c \in Clears, s \in BOOLEAN : LockSent("b", c, s)
    \/ Quit("b")
    \/ Exit("b")
    \/ Scan(Observer)
    \/ \E d \in TimeSteps : Advance(d)
    \/ Restart("b")

SpecLife == Init /\ [][NextLife]_vars

\* The same under fair scheduling of both processes: the observer's loop
\* keeps scanning, and the peer's process finishes a publish it has begun
\* and its exit (save_highscore, cleanup_state_file, break).
SpecLifeFair ==
    /\ Init
    /\ [][NextLife]_vars
    /\ WF_vars(Scan(Observer))
    /\ WF_vars(PublishCreate("b"))
    /\ WF_vars(Exit("b"))

\* the same with one peer and malformed files dropped into the directory
NextJunk ==
    \/ PublishDelete("b")
    \/ PublishCreate("b")
    \/ \E g \in 1..MaxSend : LockSend("b", g)
    \/ \E c \in Clears, s \in BOOLEAN : LockSent("b", c, s)
    \/ Quit("b")
    \/ Exit("b")
    \/ Scan(Observer)
    \/ \E d \in TimeSteps : Advance(d)
    \/ \E f \in JunkFiles(now) : DropJunk(f)

SpecJunk == Init /\ [][NextJunk]_vars

(***************************************************************************)
(* The game loop of the playing process (main, lines 1443-1616): one       *)
(* iteration per key read by getch().                                      *)
(***************************************************************************)
Keys == {"left", "right", "rotate_cw", "rotate_ccw", "soft_drop", "hard_drop",
         "hold", "none"}

\* get_current_tick, in hundredths of a second
get_current_tick(total_lines_cleared) ==
    LET speedups == total_lines_cleared \div LINES_PER_SPEEDUP
        new_tick == TICK - (speedups * SPEEDUP_AMOUNT)
    IN  IF new_tick > MIN_TICK THEN new_tick ELSE MIN_TICK

\* "current_time - last_tick >= tick_speed", where tick_speed is
\* current_tick / 50 under soft drop; t and last_tick are tenths of a second
TickDue(l, soft_drop_active, t) ==
    IF soft_drop_active
    THEN 50 * 10 * (t - l.last_tick) >= get_current_tick(l.total_lines)
    ELSE 10 * (t - l.last_tick) >= get_current_tick(l.total_lines)

HardDropOneRow(board, shape, x, y) ==
    IF collide(board, shape, x, y + 1) THEN y ELSE y + 1

RECURSIVE HardDrop(_, _, _, _)
\* "while not collide(board, shape, x, y+1): y += 1"
HardDrop(board, shape, x, y) ==
    IF collide(board, shape, x, y + 1) THEN y
    ELSE HardDrop(board, shape, x, y + 1)

\* lines 1456-1464: a shift by dx
Shift(l, dx) ==
    IF ~collide(l.board, l.shape, l.x + dx, l.y)
    THEN [l |-> [l EXCEPT !.x = @ + dx, !.last_action_was_rotation = FALSE],
          moved_or_rotated |-> TRUE]
    ELSE [l |-> l, moved_or_rotated |-> FALSE]

\* lines 1466-1482: a rotation
Rotate(l, clockwise) ==
    LET result == try_rotation(l.board, l.shape, l.x, l.y,
                               l.current_piece_name, l.current_rotation,
                               clockwise)
    IN  IF result.ok
        THEN [l |-> [l EXCEPT !.shape = result.shape,
                              !.x = result.x,
                              !.y = result.y,
                              !.current_rotation = result.rotation,
                              !.last_rotation_kick = result.kick,
                              !.last_rotation_direction =
                                  IF clockwise THEN "cw" ELSE "ccw",
                              !.last_action_was_rotation = TRUE],
              moved_or_rotated |-> TRUE]
        ELSE [l |-> l, moved_or_rotated |-> FALSE]

\* lines 1444-1519: the locals after the key is handled
AfterKey(l, key, perm) ==
    CASE key = "left" -> Shift(l, -1)
      [] key = "right" -> Shift(l, 1)
      [] key = "rotate_cw" -> Rotate(l, TRUE)
      [] key = "rotate_ccw" -> Rotate(l, FALSE)
      [] key = "soft_drop" ->
            [l |-> [l EXCEPT !.last_action_was_rotation = FALSE],
             moved_or_rotated |-> FALSE]
      [] key = "hard_drop" ->
            [l |-> [l EXCEPT !.y = HardDrop(l.board, l.shape, l.x, l.y)],
             moved_or_rotated |-> FALSE]
      [] key = "hold" -> [l |-> Hold(l, perm), moved_or_rotated |-> FALSE]
      [] OTHER -> [l |-> l, moved_or_rotated |-> FALSE]

ResetLockDelayUnbounded(l, moved_or_rotated, t) ==
    IF moved_or_rotated /\ l.lock_delay_start # None
    THEN [l EXCEPT !.lock_delay_start = t, !.lock_delay_resets = @ + 1]
    ELSE l

\* lines 1526-1528
ResetLockDelay(l, moved_or_rotated, t) ==
    IF moved_or_rotated /\ l.lock_delay_start # None
                        /\ l.lock_delay_resets < LOCK_DELAY_RESETS
    THEN [l EXCEPT !.lock_delay_start = t, !.lock_delay_resets = @ + 1]
    ELSE l

\* lines 1532-1544: gravity and the lock delay
Gravity(l, soft_drop_active, t) ==
    IF ~TickDue(l, soft_drop_active, t) THEN [l |-> l, should_lock |-> FALSE]
    ELSE LET l1 == [l EXCEPT !.last_tick = t]
         IN  IF ~collide(l1.board, l1.shape, l1.x, l1.y + 1)
             THEN [l |-> [l1 EXCEPT !.y = @ + 1, !.lock_delay_start = None],
                   should_lock |-> FALSE]
             ELSE IF l1.lock_delay_start = None
             THEN [l |-> [l1 EXCEPT !.lock_delay_start = t],
                   should_lock |-> FALSE]
             ELSE [l |-> l1, should_lock |-> t - l1.lock_delay_start >= LOCK_DELAY]

RECURSIVE get_ghost_y(_, _, _, _)
\* get_ghost_y: the row of the ghost piece drawn under the piece
get_ghost_y(board, shape, x, y) ==
    IF ~collide(board, shape, x, y + 1)
    THEN get_ghost_y(board, shape, x, y + 1)
    ELSE y

\* line 1559: the board with the piece locked into it
Locked(l) == lock(l.board, l.shape, l.x, l.y, COLORS[l.current_piece_name])

LockPieceBonusAfter(l, kos) ==
    LET spin == IF l.last_action_was_rotation
                THEN check_spin(l.board, l.x, l.y, l.current_piece_name,
                                l.current_rotation, l.last_rotation_kick)
                ELSE <<"", FALSE>>
        board == clear_lines(Locked(l))
        cleared == Cleared(Locked(l))
        is_perfect == IF cleared > 0 THEN check_perfect_clear(board) ELSE FALSE
        is_difficult == (cleared = 4) \/ (spin[1] # "" /\ cleared > 0)
        base_garbage == calculate_garbage(cleared, spin[1], spin[2],
                                          is_difficult,
                                          is_perfect)
    IN  [l EXCEPT !.board = board,
                  !.total_lines = @ + cleared,
                  !.cleared = cleared,
                  !.spin_type = spin[1],
                  !.is_mini = spin[2],
                  !.is_perfect = is_perfect,
                  !.is_difficult = is_difficult,
                  !.base_garbage = base_garbage,
                  !.garbage_to_send = IF base_garbage > 0
                                      THEN apply_ko_multiplier(base_garbage, kos)
                                      ELSE 0,
                  !.back_to_back = IF cleared > 0 THEN is_difficult ELSE @]

\* lines 1550-1573: spin, lock, line clear, attack
LockPiece(l, kos) ==
    LET spin == IF l.last_action_was_rotation
                THEN check_spin(l.board, l.x, l.y, l.current_piece_name,
                                l.current_rotation, l.last_rotation_kick)
                ELSE <<"", FALSE>>
        board == clear_lines(Locked(l))
        cleared == Cleared(Locked(l))
        is_perfect == IF cleared > 0 THEN check_perfect_clear(board) ELSE FALSE
        is_difficult == (cleared = 4) \/ (spin[1] # "" /\ cleared > 0)
        base_garbage == calculate_garbage(cleared, spin[1], spin[2],
                                          l.back_to_back /\ is_difficult,
                                          is_perfect)
    IN  [l EXCEPT !.board = board,
                  !.total_lines = @ + cleared,
                  !.cleared = cleared,
                  !.spin_type = spin[1],
                  !.is_mini = spin[2],
                  !.is_perfect = is_perfect,
                  !.is_difficult = is_difficult,
                  !.base_garbage = base_garbage,
                  !.garbage_to_send = IF base_garbage > 0
                                      THEN apply_ko_multiplier(base_garbage, kos)
                                      ELSE 0,
                  !.back_to_back = IF cleared > 0 THEN is_difficult ELSE @]

\* random.randint(0, WIDTH - 1): the hole columns considered
HoleColumns == {0, 5}

\* the globals and histories a lock leaves alone
lockKeeps == <<now, session, junk, last_state_publish, received_garbage_from,
               known_dead_players, ko_count, remote_state_cache, enqueued,
               published, wire, highscore, queued_at>>

\* lines 1602-1616: the queue is reduced, aged and drained into the board,
\* the next piece spawns; if it collides the process dies and publishes
Placed(l, draws, report, perm) ==
    LET queue == ProcessOnPlacement(
                     ReduceGarbageQueue(garbage_queue[Me], l.cleared))
        total_to_apply == TotalToApply(queue)
    IN  \E holes \in [1..total_to_apply -> HoleColumns] :
          LET next == spawn_new_piece([l EXCEPT !.board = add_garbage(@, holes)],
                                      perm)
          IN  /\ garbage_queue' = [garbage_queue EXCEPT ![Me] = NotReady(queue)]
              /\ loc' = next
              /\ spawned' = Append(spawned, next.current_piece_name)
              /\ drawn' = Append(draws, next.current_piece_name)
              /\ last_lock' = [report EXCEPT !.applied = total_to_apply]
              /\ IF SpawnOk(next)
                 THEN /\ pc' = [pc EXCEPT ![Me] = "loop"]
                      /\ UNCHANGED <<dir, ret, is_dead>>
                 ELSE /\ is_dead' = [is_dead EXCEPT ![Me] = TRUE]
                      /\ dir' = dir \ PublishRemoves(Me, dir)
                      /\ pc' = [pc EXCEPT ![Me] = "publish"]
                      /\ ret' = [ret EXCEPT ![Me] = "exit"]

\* one iteration of the loop with the key read: the key, the lock-delay
\* reset, gravity, and the lock if the piece is to lock
Key(key) ==
    /\ pc[Me] = "loop"
    /\ \E perm \in Refills(loc.piece_bag) :
         LET k == AfterKey([loc EXCEPT !.current_time = now], key, perm)
             g == Gravity(ResetLockDelay(k.l, k.moved_or_rotated, now),
                          key = "soft_drop", now)
             should_lock ==
                 \/ g.should_lock
                 \/ key = "hard_drop"
                    /\ collide(g.l.board, g.l.shape, g.l.x, g.l.y + 1)
             draws == IF key = "hold" /\ HoldDraws(loc)
                      THEN Append(drawn, k.l.current_piece_name) ELSE drawn
             l == LockPiece(g.l, ko_count[Me])
             report == [locked |-> Locked(g.l), swept |-> l.board,
                        cleared |-> l.cleared, applied |-> 0,
                        before |-> g.l, after |-> l]
         IN  IF ~should_lock
             THEN /\ loc' = g.l
                  /\ drawn' = draws
                  /\ UNCHANGED <<dir, pc, ret, cumulative_garbage_sent, is_dead,
                                 garbage_queue, spawned, locks, last_lock>>
             ELSE /\ locks' = locks + 1
                  /\ IF l.garbage_to_send > 0
                     THEN /\ cumulative_garbage_sent' =
                                 [cumulative_garbage_sent EXCEPT
                                     ![Me] = AddSent(@, l.garbage_to_send)]
                          /\ dir' = dir \ PublishRemoves(Me, dir)
                          /\ pc' = [pc EXCEPT ![Me] = "publish"]
                          /\ ret' = [ret EXCEPT ![Me] = "lock_sent"]
                          /\ loc' = l
                          /\ drawn' = draws
                          /\ last_lock' = report
                          /\ UNCHANGED <<is_dead, garbage_queue, spawned>>
                     ELSE /\ Placed(l, draws, report, perm)
                          /\ UNCHANGED cumulative_garbage_sent
    /\ UNCHANGED lockKeeps

\* the rest of the lock after the immediate publish of a sending lock
KeySent ==
    /\ pc[Me] = "lock_sent"
    /\ \E perm \in Refills(loc.piece_bag) : Placed(loc, drawn, last_lock, perm)
    /\ UNCHANGED <<cumulative_garbage_sent, locks, keys_read>>
    /\ UNCHANGED lockKeeps

(***************************************************************************)
(* The bag: the game from its start, the pieces dropped where they spawn   *)
(* or held.  Nothing completes a row, so no lock sends.                    *)
(***************************************************************************)
BagKeys == {"hard_drop", "hold"}

InitBag == InitNet /\ \E perm \in refill_bag : InitGame(perm, new_board)

NextBag ==
    \/ \E key \in BagKeys : /\ Len(drawn) < MaxDraws
                            /\ Key(key)
                            /\ UNCHANGED keys_read
    \/ PublishCreate(Me)
    \/ Exit(Me)

SpecBag == InitBag /\ [][NextBag]_vars

(***************************************************************************)
(* The game at its start, and the game in progress: right after a spawn,   *)
(* the own pieces cleared away in whole rows, on a board of garbage rows,  *)
(* an attack of a peer that has left since waiting in the queue.           *)
(***************************************************************************)
\* the heights of the garbage on the board at the start, with its holes
StartStacks == {<<>>, <<5, 5, 5, 5, 5>>,
                <<0, 0, 0, 0, 0, 0, 0, 0, 0, 0, 0, 0, 0, 0, 0, 0, 0, 0>>}

\* the pieces of the current bag used at the start, the current one included
StartDraws == {1, 7}

\* the queue at the start: an attack of the peer that left, one lock from
\* its injection
StartQueues == {<<>>, <<[lines |-> 2, buf |-> 1, sender |-> "b"]>>}

\* the locals right after spawn_new_piece took the n-th piece of a shuffle
MidLocals(perm, n, refill, board) ==
    spawn_new_piece([FirstLocals(perm, board) EXCEPT
                        !.piece_bag = SubSeq(perm, n, Len(perm)),
                        !.total_lines = 2],
                    refill)

InitPlay ==
    /\ now = 0
    /\ dir = {}
    /\ pc = [p \in Procs |-> IF p = "b" THEN "done" ELSE "loop"]
    /\ ret = [p \in Procs |-> "loop"]
    /\ session = [p \in Procs |-> 0]
    /\ junk = 0
    /\ is_dead = [p \in Procs |-> p = "b"]
    /\ last_state_publish = [p \in Procs |-> 0]
    /\ known_dead_players = [p \in Procs |-> {}]
    /\ ko_count = [p \in Procs |-> 0]
    /\ remote_state_cache = [p \in Procs |-> NoStates]
    /\ \E queue \in StartQueues :
         /\ garbage_queue = [p \in Procs |-> IF p = Me THEN queue ELSE <<>>]
         /\ cumulative_garbage_sent =
                [p \in Procs |-> IF p = "b" THEN SumLines(queue) ELSE 0]
         /\ published = cumulative_garbage_sent
         /\ received_garbage_from =
                [p \in Procs |-> IF p = Me
                                 THEN [ZeroLedger EXCEPT !["b"] = SumLines(queue)]
                                 ELSE ZeroLedger]
         /\ enqueued = received_garbage_from
    /\ \E perm \in refill_bag, refill \in refill_bag, n \in StartDraws,
          holes \in StartStacks :
         \/ /\ n = 1 /\ perm = refill /\ holes = <<>>
            /\ garbage_queue[Me] = <<>>
            /\ InitGame(perm, new_board)
         \/ /\ holes # <<>>
            /\ loc = MidLocals(perm, n, refill, add_garbage(new_board, holes))
            /\ spawned = <<loc.current_piece_name>>
            /\ drawn = spawned
            /\ locks = 0
            /\ last_lock = NoLock
            /\ keys_read = 0
            /\ wire = NoWire /\ highscore = NoScores /\ queued_at = NeverQueued

NextGame ==
    \/ \E key \in Keys : /\ keys_read < MaxKeys
                         /\ Key(key)
                         /\ keys_read' = keys_read + 1
    \/ KeySent
    \/ PublishCreate(Me)
    \/ Exit(Me)
    \/ \E d \in TimeSteps : Advance(d)

SpecGame == InitPlay /\ [][NextGame]_vars

(***************************************************************************)
(* clear_lines on its own: it is applied to boards as lock() can leave     *)
(* them, the lowest rows full, partly filled or empty.                     *)
(***************************************************************************)
\* an empty row, a garbage row, a garbage row with a piece in its hole, and
\* a row with three cells of a piece
RowKinds ==
    {EmptyRow,
     GarbageLine(5),
     [GarbageLine(5) EXCEPT ![6] = COLORS["I"]],
     [c \in 1..WIDTH |-> IF c \in 4..6 THEN COLORS["T"] ELSE 0]}

\* the board with these rows at its bottom
BoardOf(rows) ==
    [r \in 1..HEIGHT |->
        IF r <= HEIGHT - Len(rows) THEN EmptyRow
        ELSE rows[r - (HEIGHT - Len(rows))]]

InitClear ==
    /\ InitNet
    /\ \E rows \in [1..MaxRows -> RowKinds] :
          InitGame(Shuffles[1], BoardOf(rows))

\* lines 1560-1561: board, cleared = clear_lines(board); total_lines += cleared
Sweep ==
    /\ locks = 0
    /\ loc' = [loc EXCEPT !.board = clear_lines(@),
                          !.cleared = Cleared(loc.board),
                          !.total_lines = @ + Cleared(loc.board)]
    /\ last_lock' = [NoLock EXCEPT !.locked = loc.board,
                                   !.swept = clear_lines(loc.board),
                                   !.cleared = Cleared(loc.board)]
    /\ locks' = locks + 1
    /\ UNCHANGED <<now, dir, pc, ret, session, junk, netLocal>>
    /\ UNCHANGED <<spawned, drawn, keys_read, wire, highscore, queued_at>>

NextClear == Sweep

SpecClear == InitClear /\ [][NextClear]_vars

(***************************************************************************)
(* The codec on its own: a state is encoded as publish_game_state does     *)
(* and decoded as get_remote_player_states does.                           *)
(***************************************************************************)
\* the empty board, a board of garbage, and a board that holds every cell
\* value 0..8 in every row and column
CodecBoards ==
    {new_board,
     add_garbage(new_board, <<5, 0, 9>>),
     [r \in 1..HEIGHT |-> [c \in 1..WIDTH |-> (7 * r + c) % 9]]}

\* every piece and rotation at two places; one piece at every x and every
\* y of the five-bit range
CodecPlaces ==
    {<<n, r, p[1], p[2]>> : n \in PieceSet, r \in 0..3,
                            p \in {<<-4, 27>>, <<3, -1>>}}
    \cup {<<"T", 1, x, 23 - x>> : x \in -4..27}
    \cup {<<"L", 3, x, x>> : x \in -4..27}

InitCodec ==
    /\ InitNet
    /\ spawned = <<>> /\ drawn = <<>> /\ locks = 0 /\ last_lock = NoLock
    /\ keys_read = 0 /\ wire = NoWire /\ highscore = NoScores /\ queued_at = NeverQueued
    /\ \E board \in CodecBoards, place \in CodecPlaces :
          loc = [FirstLocals(Shuffles[1], board) EXCEPT
                    !.current_piece_name = place[1],
                    !.current_rotation = place[2],
                    !.shape = rotate_piece(TETROMINOES[place[1]], place[2]),
                    !.x = place[3],
                    !.y = place[4]]

\* publish_game_state, line 326: the payload of the file name
Encode ==
    /\ wire.encoded = <<>>
    /\ wire' = [wire EXCEPT !.encoded =
                   encode_game_state(loc.board, loc.current_piece_name,
                                     loc.current_rotation, loc.x, loc.y)]
    /\ UNCHANGED <<now, dir, pc, ret, session, junk, netLocal>>
    /\ UNCHANGED <<loc, spawned, drawn, locks, last_lock, keys_read, highscore, queued_at>>

\* get_remote_player_states, line 396: the payload is decoded
Decode ==
    /\ wire.encoded # <<>>
    /\ ~wire.decoded
    /\ wire' = [wire EXCEPT !.decoded = TRUE,
                            !.state = decode_game_state(wire.encoded)]
    /\ UNCHANGED <<now, dir, pc, ret, session, junk, netLocal>>
    /\ UNCHANGED <<loc, spawned, drawn, locks, last_lock, keys_read, highscore, queued_at>>

NextCodec == Encode \/ Decode

SpecCodec == InitCodec /\ [][NextCodec]_vars

(***************************************************************************)
(* The lock delay: a piece at the gravity tick that found it resting, the  *)
(* loop running every LOOP_SLEEP = 0.01 s while the clock runs.             *)
(***************************************************************************)
\* lock_delay_resets at that tick
StartResets == {0, LOCK_DELAY_RESETS - 1, LOCK_DELAY_RESETS}

\* the first piece, a T, on the floor of the empty board; or the second
\* piece, an I, on top of the T locked at the left wall, one shift from
\* the edge of its support
RestingLocals ==
    LET perm == Shuffles[3]
        first == FirstLocals(perm, new_board)
        on_floor == [first EXCEPT
                       !.y = HardDrop(first.board, first.shape, first.x, first.y)]
        at_wall == [first EXCEPT
                       !.x = 0,
                       !.y = HardDrop(first.board, first.shape, 0, first.y)]
        second == spawn_new_piece([at_wall EXCEPT !.board = Locked(at_wall)],
                                  perm)
        on_ledge == [second EXCEPT
                       !.x = 1,
                       !.y = HardDrop(second.board, second.shape, 1, second.y)]
    IN  {on_floor, on_ledge}

InitDelay ==
    /\ InitNet
    /\ \E l \in RestingLocals, resets \in StartResets :
         /\ loc = [l EXCEPT !.lock_delay_start = 0,
                            !.lock_delay_resets = resets]
         /\ spawned = IF l.current_piece_name = "T" THEN <<"T">>
                                                    ELSE <<"T", "I">>
         /\ drawn = spawned
         /\ locks = Len(spawned) - 1
    /\ last_lock = NoLock
    /\ keys_read = 0
    /\ wire = NoWire /\ highscore = NoScores /\ queued_at = NeverQueued

\* the clock moves on; the loop has run at the present instant
Wait ==
    /\ loc.current_time = now
    /\ now < MaxClock
    /\ now' = now + 1
    /\ UNCHANGED <<dir, pc, ret, session, junk, netLocal>>
    /\ UNCHANGED game

\* the piece is followed until it locks
NextDelay ==
    \/ \E key \in Keys :
         /\ last_lock = NoLock
         /\ key = "none" \/ keys_read < MaxMoves
         /\ Key(key)
         /\ keys_read' = IF key = "none" THEN keys_read ELSE keys_read + 1
    \/ Wait

SpecDelay == InitDelay /\ [][NextDelay]_vars

(***************************************************************************)
(* The classification of a lock: a piece in a pocket of the stack is       *)
(* hard-dropped, after a rotation or after a shift.                        *)
(***************************************************************************)
\* the cells of the pocket, as offsets from (x, y): the four corners of the
\* 3x3 box and the two cells under its centre column
PocketCells == {<<0, 0>>, <<2, 0>>, <<0, 2>>, <<2, 2>>, <<1, 2>>, <<1, 3>>}

\* the board with the given cells of the pocket left behind by S pieces
PocketBoard(x, y, cells) ==
    [r \in 1..HEIGHT |-> [c \in 1..WIDTH |->
        IF <<c - 1 - x, r - 1 - y>> \in cells THEN COLORS["S"] ELSE 0]]

SpinPieces == {"T", "S", "O"}
SpinKicks == {0, 1, 4}
SpinColumns == {-1, 3, WIDTH - 2}
SpinRows == {-1, HEIGHT - 4, HEIGHT - 3, HEIGHT - 2}

InitSpin ==
    /\ InitNet
    /\ \E name \in SpinPieces, rotation \in 0..3, kick \in SpinKicks,
          turned \in BOOLEAN, x \in SpinColumns, y \in SpinRows,
          cells \in SUBSET PocketCells :
         LET perm == <<name>> \o SelectSeq(Shuffles[1], LAMBDA n : n # name)
             board == PocketBoard(x, y, cells)
             shape == rotate_piece(TETROMINOES[name], rotation)
         IN  /\ name # "T" => cells \subseteq {<<1, 2>>, <<1, 3>>}
             /\ name = "O" => rotation = 0
             /\ ~turned => kick = 0
             /\ ~collide(board, shape, x, y)
             /\ loc = [FirstLocals(perm, board) EXCEPT
                          !.current_rotation = rotation,
                          !.shape = shape,
                          !.x = x,
                          !.y = y,
                          !.last_rotation_kick = kick,
                          !.last_rotation_direction =
                              IF turned THEN "cw" ELSE "",
                          !.last_action_was_rotation = turned]
             /\ spawned = <<name>>
             /\ drawn = <<name>>
    /\ locks = 0
    /\ last_lock = NoLock
    /\ keys_read = 0
    /\ wire = NoWire /\ highscore = NoScores /\ queued_at = NeverQueued

NextSpin ==
    /\ last_lock = NoLock
    /\ Key("hard_drop")
    /\ UNCHANGED keys_read

SpecSpin == InitSpin /\ [][NextSpin]_vars

(***************************************************************************)
(* reduce_garbage_queue on its own: it is applied to the queues the scans  *)
(* and earlier locks can leave, with the lines a lock cleared.  The peers  *)
(* that attacked have left.                                                *)
(***************************************************************************)
\* an entry holds 1..3 lines, is fresh or about to be injected, and the
\* two peers alternate as senders
QueuesOfLen(n) ==
    {[i \in 1..n |-> [lines |-> f[i][1], buf |-> f[i][2],
                      sender |-> IF i % 2 = 1 THEN "b" ELSE "c"]] :
        f \in [1..n -> (1..3) \X {1, GARBAGE_BUFFER_PIECES}]}

InitCancel ==
    /\ now = 0
    /\ dir = {}
    /\ pc = [p \in Procs |-> IF p = Me THEN "loop" ELSE "done"]
    /\ ret = [p \in Procs |-> "loop"]
    /\ session = [p \in Procs |-> 0]
    /\ junk = 0
    /\ is_dead = [p \in Procs |-> p # Me]
    /\ last_state_publish = [p \in Procs |-> 0]
    /\ known_dead_players = [p \in Procs |-> {}]
    /\ ko_count = [p \in Procs |-> 0]
    /\ remote_state_cache = [p \in Procs |-> NoStates]
    /\ \E n \in 0..MaxQueue, lines_cleared \in 0..4 :
         \E queue \in QueuesOfLen(n) :
            LET from(p) == SumLines(SelectSeq(queue, LAMBDA e : e.sender = p))
            IN  /\ garbage_queue = [p \in Procs |-> IF p = Me THEN queue ELSE <<>>]
                /\ cumulative_garbage_sent =
                       [p \in Procs |-> IF p = Me THEN 0 ELSE from(p)]
                /\ published = cumulative_garbage_sent
                /\ received_garbage_from =
                       [p \in Procs |-> IF p = Me
                                        THEN [q \in Procs |-> from(q)]
                                        ELSE ZeroLedger]
                /\ enqueued = received_garbage_from
                /\ loc = [FirstLocals(Shuffles[1], new_board) EXCEPT
                             !.cleared = lines_cleared]
    /\ spawned = <<Head(Shuffles[1])>>
    /\ drawn = spawned
    /\ locks = 0
    /\ last_lock = NoLock
    /\ keys_read = 0
    /\ wire = NoWire /\ highscore = NoScores /\ queued_at = NeverQueued

\* main, lines 1602-1603, for the lines the lock cleared
Cancel ==
    /\ locks = 0
    /\ garbage_queue' =
          [garbage_queue EXCEPT
              ![Me] = IF loc.cleared > 0
                      THEN ReduceGarbageQueue(@, loc.cleared) ELSE @]
    /\ last_lock' = [NoLock EXCEPT
                        !.cleared = loc.cleared,
                        !.before = [garbage_queue |-> garbage_queue[Me]]]
    /\ locks' = locks + 1
    /\ UNCHANGED <<now, dir, pc, ret, session, junk, cumulative_garbage_sent,
                   is_dead, last_state_publish, received_garbage_from,
                   known_dead_players, ko_count, remote_state_cache,
                   enqueued, published>>
    /\ UNCHANGED <<loc, spawned, drawn, keys_read, wire, highscore, queued_at>>

NextCancel == Cancel

SpecCancel == InitCancel /\ [][NextCancel]_vars

(***************************************************************************)
(* calculate_garbage and apply_ko_multiplier on their own: they are        *)
(* applied to every classification of a clearing or non-clearing lock and  *)
(* to the KO counts of a session.                                          *)
(***************************************************************************)
SpinTypes == {"", "T-SPIN", "S-SPIN", "I-SPIN"}

InitAttack ==
    /\ now = 0
    /\ dir = {}
    /\ pc = [p \in Procs |-> "loop"]
    /\ ret = [p \in Procs |-> "loop"]
    /\ session = [p \in Procs |-> 0]
    /\ junk = 0
    /\ cumulative_garbage_sent = [p \in Procs |-> 0]
    /\ is_dead = [p \in Procs |-> FALSE]
    /\ last_state_publish = [p \in Procs |-> 0]
    /\ received_garbage_from = [p \in Procs |-> ZeroLedger]
    /\ known_dead_players = [p \in Procs |-> {}]
    /\ \E kos \in 0..MaxKo : ko_count = [p \in Procs |-> IF p = Me THEN kos ELSE 0]
    /\ remote_state_cache = [p \in Procs |-> NoStates]
    /\ garbage_queue = [p \in Procs |-> <<>>]
    /\ enqueued = [p \in Procs |-> ZeroLedger]
    /\ published = [p \in Procs |-> 0]
    /\ \E cleared \in 0..4, spin_type \in SpinTypes, is_mini \in BOOLEAN,
          back_to_back \in BOOLEAN, is_perfect \in BOOLEAN :
         loc = [FirstLocals(Shuffles[1], new_board) EXCEPT
                   !.cleared = cleared,
                   !.spin_type = spin_type,
                   !.is_mini = is_mini,
                   !.back_to_back = back_to_back,
                   !.is_perfect = is_perfect]
    /\ spawned = <<Head(Shuffles[1])>>
    /\ drawn = spawned
    /\ locks = 0
    /\ last_lock = NoLock
    /\ keys_read = 0
    /\ wire = NoWire /\ highscore = NoScores /\ queued_at = NeverQueued

\* calculate_garbage on the classification, and lines 1567: the KO
\* multiplier on its result
Attack ==
    /\ locks = 0
    /\ LET base_garbage == calculate_garbage(loc.cleared, loc.spin_type,
                                             loc.is_mini, loc.back_to_back,
                                             loc.is_perfect)
       IN  loc' = [loc EXCEPT
                      !.base_garbage = base_garbage,
                      !.garbage_to_send =
                          IF base_garbage > 0
                          THEN apply_ko_multiplier(base_garbage, ko_count[Me])
                          ELSE 0]
    /\ locks' = locks + 1
    /\ UNCHANGED <<now, dir, pc, ret, session, junk, netLocal>>
    /\ UNCHANGED <<spawned, drawn, last_lock, keys_read, wire, highscore, queued_at>>

NextAttack == Attack

SpecAttack == InitAttack /\ [][NextAttack]_vars

(***************************************************************************)
(* Back-to-back: a game in progress on a stack of garbage with a well, or  *)
(* with a T turned into a slot; the pieces are turned, held and dropped    *)
(* where they spawn.                                                       *)
(***************************************************************************)
B2BKeys == {"rotate_cw", "hard_drop", "hold"}

\* the holes of the garbage rows, the highest row first: a well of nine
\* rows, a well of five rows on a row with its hole elsewhere, and a well
\* of seventeen rows, three rows below the top
WellStacks == {<<5, 5, 5, 5, 5, 5, 5, 5, 5>>, <<5, 5, 5, 5, 5, 0>>,
               <<5, 5, 5, 5, 5, 5, 5, 5, 5, 5, 5, 5, 5, 5, 5, 5, 5>>}

\* an I in play, an I held, and an I the next piece of the bag: the last
\* piece of a shuffle was spawned and the bag refilled
WellLocals(holes) ==
    [spawn_new_piece([FirstLocals(Shuffles[2], add_garbage(new_board, holes))
                         EXCEPT !.piece_bag = <<"I">>], Shuffles[1])
        EXCEPT !.held_piece_name = "I"]

\* a T pointing down in a slot at the floor, turned into it with the first
\* kick: the two rows it completes and an overhang above its left end
SlotBoard ==
    [r \in 1..HEIGHT |-> [c \in 1..WIDTH |->
        CASE r = HEIGHT -> IF c = 5 THEN 0 ELSE GARBAGE_COLOR
          [] r = HEIGHT - 1 -> IF c \in 4..6 THEN 0 ELSE COLORS["J"]
          [] r = HEIGHT - 2 -> IF c = 4 THEN COLORS["S"] ELSE 0
          [] OTHER -> 0]]

SlotLocals ==
    [FirstLocals(Shuffles[3], SlotBoard) EXCEPT
        !.current_rotation = 2,
        !.shape = rotate_piece(TETROMINOES["T"], 2),
        !.x = 3,
        !.y = HEIGHT - 3,
        !.last_rotation_kick = 1,
        !.last_rotation_direction = "cw",
        !.last_action_was_rotation = TRUE]

InitB2B ==
    /\ InitNet
    /\ \E l \in {WellLocals(holes) : holes \in WellStacks} \cup {SlotLocals},
          back_to_back \in BOOLEAN :
         /\ loc = [l EXCEPT !.back_to_back = back_to_back]
         /\ spawned = <<l.current_piece_name>>
    /\ drawn = spawned
    /\ locks = 0
    /\ last_lock = NoLock
    /\ keys_read = 0
    /\ wire = NoWire /\ highscore = NoScores /\ queued_at = NeverQueued

NextB2B ==
    \/ \E key \in B2BKeys : /\ locks < MaxStreak
                            /\ Key(key)
                            /\ UNCHANGED keys_read
    \/ KeySent
    \/ PublishCreate(Me)
    \/ Exit(Me)

SpecB2B == InitB2B /\ [][NextB2B]_vars

(***************************************************************************)
(* The hold key: the first piece of a game, or a piece of a game in        *)
(* progress with an attack about to be injected, is shifted, turned, held  *)
(* and dropped; the presses of the hold key are counted, and after the     *)
(* lock only the hold key is pressed.                                      *)
(***************************************************************************)
HoldKeys == {"left", "rotate_cw", "soft_drop", "hard_drop", "hold", "none"}

InitHold ==
    /\ InitPlay
    /\ loc \in {FirstLocals(Shuffles[1], new_board),
                MidLocals(Shuffles[2], 7, Shuffles[1],
                          add_garbage(new_board, <<5, 5, 5, 5, 5>>))}

NextHold ==
    \/ \E key \in HoldKeys :
         /\ key # "hold" => locks = 0
         /\ key = "hold" => keys_read < MaxHolds
         /\ Key(key)
         /\ keys_read' = IF key = "hold" THEN keys_read + 1 ELSE keys_read
    \/ KeySent
    \/ PublishCreate(Me)

SpecHold == InitHold /\ [][NextHold]_vars

(***************************************************************************)
(* One key on its own: a piece that has come straight down a column of    *)
(* the empty board or of a garbage stack with a well is turned once or     *)
(* hard-dropped.  keys_read tells the key that was read.                   *)
(***************************************************************************)
\* the column of the well
WellColumns == {0, 5}

\* a stack of n garbage rows with their holes in one column
WellBoard(n, hole_pos) == add_garbage(new_board, [i \in 1..n |-> hole_pos])

\* the rows the piece is turned at: the spawn row and the rows of the stack
KickRows == {-1} \cup ((HEIGHT - MaxWell - 3)..(HEIGHT - 1))

InitKick ==
    /\ InitNet
    /\ \E name \in PieceSet, rotation \in 0..3, x \in (-2)..(WIDTH - 1),
          y \in KickRows, depth \in {0, 2, MaxWell}, hole_pos \in WellColumns,
          resting \in BOOLEAN, resets \in {0, LOCK_DELAY_RESETS} :
         LET perm == <<name>> \o SelectSeq(Shuffles[1], LAMBDA n : n # name)
             board == WellBoard(depth, hole_pos)
             shape == rotate_piece(TETROMINOES[name], rotation)
         IN  /\ depth = 0 => hole_pos = 0
             /\ name = "O" => rotation = 0
             /\ \A above \in (-1)..y : ~collide(board, shape, x, above)
             /\ resting = collide(board, shape, x, y + 1)
             /\ loc = [FirstLocals(perm, board) EXCEPT
                          !.current_rotation = rotation,
                          !.shape = shape,
                          !.x = x,
                          !.y = y,
                          !.lock_delay_start = IF resting THEN 0 ELSE None,
                          !.lock_delay_resets = resets]
             /\ spawned = <<name>>
             /\ drawn = <<name>>
    /\ locks = 0
    /\ last_lock = NoLock
    /\ keys_read = 0
    /\ wire = NoWire /\ highscore = NoScores /\ queued_at = NeverQueued

\* the keys pressed and what keys_read tells of them
KeyCode == [rotate_cw |-> 1, rotate_ccw |-> 2, hard_drop |-> 3]

Press(key) ==
    /\ keys_read = 0
    /\ Key(key)
    /\ keys_read' = KeyCode[key]

NextKick == \E key \in DOMAIN KeyCode : Press(key)

SpecKick == InitKick /\ [][NextKick]_vars

(***************************************************************************)
(* The garbage delay: the playing process scans and locks pieces while an  *)
(* attack of peer b is on file and peer c is in the publish of its first   *)
(* sending lock.  The game starts on the empty board, or on a stack with a *)
(* well and an I turned upright over it; the pieces are dropped where they *)
(* are.                                                                    *)
(***************************************************************************)
GarbageKeys == {"hard_drop"}

GarbageLocals ==
    {FirstLocals(Shuffles[1], new_board),
     Rotate(WellLocals(<<5, 5, 5, 5, 5>>), TRUE).l}

InitGarbage ==
    /\ now = 0
    /\ dir = {StateFile("b", 0, FALSE, 2)}
    /\ pc = [p \in Procs |-> IF p = "c" THEN "publish" ELSE "loop"]
    /\ ret = [p \in Procs |-> IF p = "c" THEN "lock_sent" ELSE "loop"]
    /\ session = [p \in Procs |-> 0]
    /\ junk = 0
    /\ cumulative_garbage_sent = [a |-> 0, b |-> 2, c |-> 1]
    /\ is_dead = [p \in Procs |-> FALSE]
    /\ last_state_publish = [p \in Procs |-> 0]
    /\ received_garbage_from = [p \in Procs |-> ZeroLedger]
    /\ known_dead_players = [p \in Procs |-> {}]
    /\ ko_count = [p \in Procs |-> 0]
    /\ remote_state_cache = [p \in Procs |-> NoStates]
    /\ garbage_queue = [p \in Procs |-> <<>>]
    /\ enqueued = [p \in Procs |-> ZeroLedger]
    /\ published = [a |-> 0, b |-> 2, c |-> 0]
    /\ loc \in GarbageLocals
    /\ spawned = <<loc.current_piece_name>>
    /\ drawn = spawned
    /\ locks = 0
    /\ last_lock = NoLock
    /\ keys_read = 0
    /\ wire = NoWire /\ highscore = NoScores /\ queued_at = NeverQueued

NextGarbage ==
    \/ \E key \in GarbageKeys : /\ locks < MaxLocks
                                /\ Key(key)
                                /\ UNCHANGED keys_read
    \/ KeySent
    \/ PublishCreate(Me)
    \/ PublishCreate("c")
    \/ Scan(Me)

SpecGarbage == InitGarbage /\ [][NextGarbage]_vars

(***************************************************************************)
(* The queue under attack: a peer sends while the observer scans and locks *)
(* pieces, with and without clearing lines and sending itself.             *)
(***************************************************************************)
\* the lines a lock clears without sending, and those of a sending lock
\* (a single sends only as a T-spin)
QuietClears == {0, 1}
SendingClears == {1, 4}

NextQueue ==
    \/ \E g \in 1..MaxSend : LockSend("b", g)
    \/ PublishCreate("b")
    \/ \E c \in SendingClears : LockSent("b", c, TRUE)
    \/ Scan(Observer)
    \/ \E c \in QuietClears : LockQuiet(Observer, c, TRUE)
    \/ \E g \in 1..MaxSend : LockSend(Observer, g)
    \/ PublishCreate(Observer)
    \/ \E c \in SendingClears : LockSent(Observer, c, TRUE)

SpecQueue == Init /\ [][NextQueue]_vars

(***************************************************************************)
(* Old files and the peer cache: the clock runs past the timeouts of       *)
(* get_remote_player_states while a peer publishes, stalls, attacks and    *)
(* dies, and the observer's listing of the directory may fail.             *)
(***************************************************************************)
\* os.listdir(SHARED_DIR) raises: the outer except leaves fresh_states
\* empty and removes nothing; the cache is aged and returned, and the
\* loop passes it to process_incoming_garbage and process_deaths
ListingFails(p) ==
    /\ pc[p] = "loop"
    /\ LET states == RemoteStates(remote_state_cache[p], NoStates, now)
           ledger == received_garbage_from[p]
           att == Attackers(states, ledger)
           dead == NewDead(states, known_dead_players[p])
       IN  /\ remote_state_cache' = [remote_state_cache EXCEPT ![p] = states]
           /\ received_garbage_from' =
                  [received_garbage_from EXCEPT ![p] = NewLedger(states, ledger)]
           /\ \E order \in Orders(att) :
                  garbage_queue' = [garbage_queue EXCEPT
                      ![p] = QueueAll(@, states, ledger, order)]
           /\ enqueued' = [enqueued EXCEPT ![p] =
                  [q \in Procs |-> IF q \in att
                                   THEN @[q] + NewGarbage(states, ledger, q)
                                   ELSE @[q]]]
           /\ known_dead_players' =
                  [known_dead_players EXCEPT ![p] = @ \cup dead]
           /\ ko_count' = [ko_count EXCEPT ![p] = @ + Cardinality(dead)]
           /\ queued_at' = [queued_at EXCEPT ![p] =
                  [q \in Procs |-> IF q \in att THEN locks ELSE @[q]]]
    /\ UNCHANGED <<now, dir, pc, ret, session, junk, cumulative_garbage_sent,
                   is_dead, last_state_publish, published>>
    /\ UNCHANGED <<loc, spawned, drawn, locks, last_lock, keys_read, wire,
                   highscore>>

\* the moments the clock is read at: each timeout and the tenths after it
Instants ==
    {th + e : th \in {0, STATE_STALE_TIMEOUT, STATE_CLEANUP_TIMEOUT,
                      DEAD_STATE_CLEANUP_TIMEOUT},
              e \in 0..MaxSlack}

\* time passes until the next moment a process looks at the clock
WaitUntil(t) ==
    /\ t \in Instants
    /\ t > now
    /\ now' = t
    /\ UNCHANGED <<dir, pc, ret, session, junk, netLocal>>
    /\ UNCHANGED game

NextStale ==
    \/ PublishDelete("b")
    \/ PublishCreate("b")
    \/ LockSend("b", 1)
    \/ LockSent("b", 1, TRUE)
    \/ Quit("b")
    \/ Exit("b")
    \/ Scan(Observer)
    \/ ListingFails(Observer)
    \/ \E t \in Instants : WaitUntil(t)

SpecStale == Init /\ [][NextStale]_vars

(***************************************************************************)
(* Spins of the other pieces: a piece over the empty board or in a stack   *)
(* with a well is turned, shifted and soft-dropped in any order and then   *)
(* hard-dropped.  keys_read tells the last successful action: 0 none,      *)
(* 1 a rotation without kick, 2 a rotation with a kick, 3 a shift.         *)
(***************************************************************************)
AllSpinPieces == {"S", "Z", "J", "L", "I"}

AllSpinKeys == {"left", "right", "rotate_cw", "rotate_ccw", "soft_drop",
                "hard_drop"}

AllSpinRows == {-1, HEIGHT - MaxWell + 1}

InitAllSpin ==
    /\ InitNet
    /\ \E name \in AllSpinPieces \cup {"O"}, x \in WellColumns, y \in AllSpinRows,
          depth \in {0, MaxWell} :
         LET perm == <<name>> \o SelectSeq(Shuffles[1], LAMBDA n : n # name)
             board == WellBoard(depth, 0)
             shape == TETROMINOES[name]
         IN  /\ \A above \in (-1)..y : ~collide(board, shape, x, above)
             /\ loc = [FirstLocals(perm, board) EXCEPT
                          !.shape = shape, !.x = x, !.y = y]
             /\ spawned = <<name>>
             /\ drawn = <<name>>
    /\ locks = 0
    /\ last_lock = NoLock
    /\ keys_read = 0
    /\ wire = NoWire /\ highscore = NoScores /\ queued_at = NeverQueued

\* the last successful action after the key is handled (lines 1456-1482:
\* a shift succeeds when the cell is free, a rotation when a kick fits)
LastAction(code, l, key) ==
    IF key \in {"rotate_cw", "rotate_ccw"}
    THEN LET result == try_rotation(l.board, l.shape, l.x, l.y,
                                    l.current_piece_name, l.current_rotation,
                                    key = "rotate_cw")
         IN  IF ~result.ok THEN code
             ELSE IF result.kick > 0 THEN 2 ELSE 1
    ELSE IF key \in {"left", "right"}
    THEN (IF collide(l.board, l.shape,
                     l.x + (IF key = "left" THEN -1 ELSE 1), l.y)
          THEN code ELSE 3)
    ELSE code

Act(key) ==
    /\ locks = 0
    /\ Key(key)
    /\ keys_read' = LastAction(keys_read, loc, key)

NextAllSpin == \E key \in AllSpinKeys : Act(key)

SpecAllSpin == InitAllSpin /\ [][NextAllSpin]_vars

(***************************************************************************)
(* A process among its own files: the observer itself plays, attacks,      *)
(* publishes and quits while it scans; it may be killed before it removes  *)
(* its last file and come back under the same name.  Peer b attacks too.   *)
(***************************************************************************)
\* the process is killed (no except or finally clause runs): its files
\* stay in the directory
Killed(p) ==
    /\ pc[p] \in {"loop", "exit"}
    /\ pc' = [pc EXCEPT ![p] = "done"]
    /\ UNCHANGED <<now, dir, ret, session, junk, netLocal>>
    /\ UNCHANGED game

NextSelf ==
    \/ PublishDelete(Observer)
    \/ PublishCreate(Observer)
    \/ LockSend(Observer, 1)
    \/ LockSent(Observer, 1, TRUE)
    \/ Quit(Observer)
    \/ Exit(Observer)
    \/ Killed(Observer)
    \/ Restart(Observer)
    \/ Scan(Observer)
    \/ LockSend("b", 1)
    \/ PublishCreate("b")
    \/ LockSent("b", 1, TRUE)
    \/ Advance(1)

SpecSelf == Init /\ [][NextSelf]_vars

(***************************************************************************)
(* A piece kept in play: the T at rest on the floor of the empty board is  *)
(* shifted and turned for as long as the player likes, one key every tenth *)
(* of a second; the resets of the lock delay are all but used up.  The     *)
(* loop reads the clock only in differences (current_time - last_tick,     *)
(* current_time - lock_delay_start), so a tenth that passes is modelled by *)
(* making the recorded times a tenth older while the clock value stays.    *)
(***************************************************************************)
MoveKeys == {"left", "right", "rotate_cw", "rotate_ccw", "none"}

\* the clock value of the scenario: above every age a recorded time reaches
Present == 2 * (LOCK_DELAY + (TICK \div 10))

InitLinger ==
    /\ now = Present
    /\ dir = {}
    /\ pc = [p \in Procs |-> "loop"]
    /\ ret = [p \in Procs |-> "loop"]
    /\ session = [p \in Procs |-> 0]
    /\ junk = 0
    /\ cumulative_garbage_sent = [p \in Procs |-> 0]
    /\ is_dead = [p \in Procs |-> FALSE]
    /\ last_state_publish = [p \in Procs |-> Present]
    /\ received_garbage_from = [p \in Procs |-> ZeroLedger]
    /\ known_dead_players = [p \in Procs |-> {}]
    /\ ko_count = [p \in Procs |-> 0]
    /\ remote_state_cache = [p \in Procs |-> NoStates]
    /\ garbage_queue = [p \in Procs |-> <<>>]
    /\ enqueued = [p \in Procs |-> ZeroLedger]
    /\ published = [p \in Procs |-> 0]
    /\ \E resets \in {LOCK_DELAY_RESETS - 1, LOCK_DELAY_RESETS} :
         LET first == FirstLocals(Shuffles[3], new_board)
         IN  loc = [first EXCEPT
                       !.y = HardDrop(first.board, first.shape, first.x, first.y),
                       !.last_tick = Present - 1,
                       !.current_time = Present - 1,
                       !.lock_delay_start = Present - 1,
                       !.lock_delay_resets = resets]
    /\ spawned = <<"T">>
    /\ drawn = <<"T">>
    /\ locks = 0
    /\ last_lock = NoLock
    /\ keys_read = 0
    /\ wire = NoWire /\ highscore = NoScores /\ queued_at = NeverQueued

\* one iteration of the loop in this tenth of a second, while the piece is
\* in play
Iterate(key) ==
    /\ last_lock = NoLock
    /\ loc.current_time # now
    /\ Key(key)
    /\ UNCHANGED keys_read

\* a tenth of a second passes
Elapse ==
    /\ last_lock = NoLock
    /\ loc.current_time = now
    /\ loc' = [loc EXCEPT
                  !.current_time = @ - 1,
                  !.last_tick = @ - 1,
                  !.lock_delay_start = IF @ = None THEN None ELSE @ - 1]
    /\ UNCHANGED <<now, dir, pc, ret, session, junk, netLocal>>
    /\ UNCHANGED <<spawned, drawn, locks, last_lock, keys_read, wire,
                   highscore, queued_at>>

NextLinger == (\E key \in MoveKeys : Iterate(key)) \/ Elapse

\* an iteration is due: the one with no key read is then always possible
IterateDue == last_lock = NoLock /\ loc.current_time # now

\* Time keeps passing and the loop keeps running; which keys are read is the
\* player's choice.  The second condition is the weak fairness of the
\* iteration, WF_vars(\E key \in MoveKeys : Iterate(key)), with its
\* enabling condition IterateDue written out: every iteration makes
\* IterateDue false.
SpecLinger ==
    /\ InitLinger
    /\ [][NextLinger]_vars
    /\ WF_vars(Elapse)
    /\ []<>(~IterateDue)

(***************************************************************************)
(* Properties of the peer protocol.                                        *)
(***************************************************************************)
RECURSIVE LinesFrom(_, _)
\* the lines of the queue entries of one sender
LinesFrom(queue, q) ==
    IF queue = <<>> THEN 0
    ELSE (IF Head(queue).sender = q THEN Head(queue).lines ELSE 0)
         + LinesFrom(Tail(queue), q)

\* the peer has been alive and publishing in one session since the start
StaysAlive(q) == session[q] = 0 /\ ~is_dead[q]

\* C1  Garbage exactly-once: whatever the interleaving of the observer's
\* scans with the publish steps of a peer that stays alive, the lines the
\* observer has enqueued from that peer are exactly the advance of its
\* ledger (nothing twice), the ledger never runs ahead of the peer's
\* counter, and once the observer has seen the counter B it has enqueued
\* exactly B lines (nothing lost), for each of the two peers separately.
GarbageExactlyOnce ==
    \A q \in Peers :
        /\ enqueued[Observer][q] = received_garbage_from[Observer][q]
        /\ LinesFrom(garbage_queue[Observer], q) = enqueued[Observer][q]
        /\ StaysAlive(q) =>
             /\ received_garbage_from[Observer][q] <= cumulative_garbage_sent[q]
             /\ q \in DOMAIN remote_state_cache[Observer] =>
                  enqueued[Observer][q] = remote_state_cache[Observer][q].cum

\* both peers attacked, one of them in two steps seen by two scans
GarbageExactlyOnceSeen ==
    /\ StaysAlive("b") /\ StaysAlive("c")
    /\ enqueued[Observer]["b"] = 2
    /\ enqueued[Observer]["c"] >= 1
    /\ Len(garbage_queue[Observer]) = 3
    /\ garbage_queue[Observer][1].sender = "c"

\* C2  Attack monotonicity: the counter starts at 0, within a session it
\* never decreases and changes only at a lock that sends garbage, and the
\* counters of the files a process creates never decrease.
AttackMonotone ==
    /\ \A p \in Procs : cumulative_garbage_sent[p] = 0
    /\ [][\A p \in Procs :
            IF session'[p] = session[p]
            THEN /\ cumulative_garbage_sent'[p] >= cumulative_garbage_sent[p]
                 /\ published'[p] >= published[p]
                 /\ cumulative_garbage_sent'[p] # cumulative_garbage_sent[p]
                      => /\ pc[p] = "loop" /\ pc'[p] = "publish"
                         /\ ret'[p] = "lock_sent"
                 /\ published'[p] # published[p]
                      => \E f \in dir' \ dir :
                            f.player = p /\ f.cum = published'[p]
            ELSE cumulative_garbage_sent'[p] = 0]_vars

\* a process has published its counter after two sending locks
AttackMonotoneSeen ==
    /\ published["b"] = 2
    /\ \E f \in dir : f.player = "b" /\ f.cum = 2 /\ ~f.dead

\* C3  (as claimed) after a scan the ledger is never above the counter the
\* observer has just seen for an alive peer: a lower counter is taken over
\* as the start of a new session.
LowerCounterIsNewSession ==
    \A q \in DOMAIN remote_state_cache[Observer] :
        ~remote_state_cache[Observer][q].dead =>
            received_garbage_from[Observer][q]
                <= remote_state_cache[Observer][q].cum

\* the records a reader accepts as state of publisher p
RecordsOf(p, files) ==
    {f \in files : f.player = p /\ f.form = "ok" /\ f.payload = "ok"}

\* C4  Single authoritative record: the directory never holds two state
\* files of one publisher.
SingleRecord == \A p \in Procs : Cardinality(RecordsOf(p, dir)) <= 1

\* a publisher that came back has removed its old file and not yet created
\* the new one, while the observer still knows its last state
SingleRecordSeen ==
    /\ pc["b"] = "publish"
    /\ session["b"] = 1
    /\ published["b"] > 0
    /\ RecordsOf("b", dir) = {}
    /\ "b" \in DOMAIN remote_state_cache[Observer]

\* C5  A peer is credited as a KO at most once per session of the
\* observer: the KO count is the size of the known-dead set, the set never
\* loses an entry, and a scan adds exactly the dead peers that were not in it.
KOOnce ==
    /\ [](\A p \in Procs :
            /\ ko_count[p] = Cardinality(known_dead_players[p])
            /\ \A q \in DOMAIN remote_state_cache[p] :
                  remote_state_cache[p][q].dead => q \in known_dead_players[p])
    /\ [][\A p \in Procs : session'[p] = session[p] =>
            /\ known_dead_players[p] \subseteq known_dead_players'[p]
            /\ \A q \in known_dead_players'[p] \ known_dead_players[p] :
                  /\ q \in DOMAIN remote_state_cache'[p]
                  /\ remote_state_cache'[p][q].dead]_vars

\* the observer sees a peer dead for the second time (it died, came back
\* and died again) and has counted it once
KOOnceSeen ==
    /\ session["b"] = 1
    /\ is_dead["b"]
    /\ "b" \in DOMAIN remote_state_cache[Observer]
    /\ remote_state_cache[Observer]["b"].dead
    /\ remote_state_cache[Observer]["b"].ts = 1
    /\ ko_count[Observer] = 1

\* C6  (as claimed) a state file with isDead = 1 stays in the directory
\* until its timestamp is older than DEAD_STATE_CLEANUP_TIMEOUT.
DeadFileRetained ==
    [][\A f \in dir :
          (f.dead /\ now' - f.ts <= DEAD_STATE_CLEANUP_TIMEOUT) => f \in dir']_vars

\* the files of a listing that are well-formed
WellFormed(files) == {f \in files : f.form = "ok" /\ f.payload = "ok"}

\* C7  A malformed state file is discarded silently: a scan gives the same
\* states with it as without it, and nothing of it reaches the cache, the
\* ledger, the queue, the known-dead set or the KO count.
MalformedDiscarded ==
    /\ FreshStates(Observer, dir, now)
         = FreshStates(Observer, WellFormed(dir), now)
    /\ \A q \in DOMAIN remote_state_cache[Observer] :
          remote_state_cache[Observer][q].cum <= cumulative_garbage_sent[q]
    /\ \A q \in Procs :
          /\ received_garbage_from[Observer][q] <= cumulative_garbage_sent[q]
          /\ LinesFrom(garbage_queue[Observer], q) <= cumulative_garbage_sent[q]
    /\ \A q \in known_dead_players[Observer] : is_dead[q]
    /\ ko_count[Observer] = Cardinality(known_dead_players[Observer])

\* a scan has read a directory that held a malformed file next to the
\* peer's real one
MalformedDiscardedSeen ==
    /\ \E f \in dir : f \notin WellFormed(dir) /\ f.ts = 0 /\ f.player = "c"
    /\ "b" \in DOMAIN remote_state_cache[Observer]
    /\ remote_state_cache[Observer]["b"].ts = 1
    /\ received_garbage_from[Observer]["b"] > 0

(***************************************************************************)
(* Properties of the bag.                                                  *)
(***************************************************************************)
\* the fill of the bag a draw comes from: draws 1..7 are fill 0, 8..14 fill 1
Fill(i) == (i - 1) \div 7

\* C8  (as claimed) every window of 7 consecutive spawned pieces holds each
\* of the seven piece names exactly once.
BagFairWindows ==
    \A i \in 1..(Len(spawned) - 6) :
        {spawned[j] : j \in i..(i + 6)} = PieceSet

\* C8  (amended) the pieces popped from the bag (by the start of the game,
\* by spawn_new_piece and by a hold into the empty slot) are piece names,
\* and no name is popped twice from one fill of the bag: the draws
\* 7k+1..7k+7 hold each of the seven names exactly once.
BagFairFills ==
    /\ \A i \in 1..Len(drawn) : drawn[i] \in PieceSet
    /\ \A i, j \in 1..Len(drawn) :
          (i # j /\ Fill(i) = Fill(j)) => drawn[i] # drawn[j]
    /\ \A i \in 1..Len(drawn) :
          (i % 7 = 0) => {drawn[j] : j \in (i - 6)..i} = PieceSet

\* the second fill is being drawn, a hold has popped the bag, and the eighth
\* draw repeats one of the six before it
BagFairFillsSeen ==
    /\ Len(drawn) >= 9
    /\ Len(spawned) < Len(drawn)
    /\ drawn[8] \in {drawn[j] : j \in 2..7}

(***************************************************************************)
(* Properties of the board.                                                *)
(***************************************************************************)
\* C9  Board occupancy bounds: whatever the keys, after locks, line clears,
\* garbage injections, spawns and holds the board has exactly HEIGHT = 20
\* rows of exactly WIDTH = 10 cells, each cell in 0..8.
BoardBounds ==
    /\ DOMAIN loc.board = 1..20
    /\ \A r \in DOMAIN loc.board :
          /\ DOMAIN loc.board[r] = 1..10
          /\ \A c \in DOMAIN loc.board[r] : loc.board[r][c] \in 0..8

\* a piece taken out of the hold slot's first fill has locked and garbage
\* came up under it
BoardBoundsSeen ==
    /\ locks > 0
    /\ loc.held_piece_name # ""
    /\ last_lock.applied > 0
    /\ \E c \in 1..WIDTH : loc.board[HEIGHT][c] = GARBAGE_COLOR
    /\ \E r \in 1..HEIGHT, c \in 1..WIDTH : loc.board[r][c] \in 1..7

\* whether every cell of a row is non-zero
IsFull(row) == ~\E c \in 1..Len(row) : row[c] = 0

\* the indices of the rows of a board that are not full, from the top
KeptRows(board) ==
    SelectSeq([r \in 1..Len(board) |-> r], LAMBDA r : ~IsFull(board[r]))

\* C10  clear_lines removes exactly the full rows and returns their number;
\* the other rows are unchanged, in their order, at the bottom, under that
\* many empty rows (so every column keeps the cells of the surviving rows
\* in their order from top to bottom).
ClearLinesExact ==
    locks > 0 =>
        LET before == last_lock.locked
            after == last_lock.swept
            kept == KeptRows(before)
            n == Len(before) - Len(kept)
        IN  /\ last_lock.cleared = n
            /\ n = Cardinality({r \in 1..Len(before) : IsFull(before[r])})
            /\ Len(after) = Len(before)
            /\ \A r \in 1..n : \A c \in 1..WIDTH : after[r][c] = 0
            /\ \A i \in 1..Len(kept) : after[n + i] = before[kept[i]]
            /\ \A c \in 1..WIDTH :
                  [i \in 1..Len(kept) |-> after[n + i][c]]
                      = [i \in 1..Len(kept) |-> before[kept[i]][c]]

\* two full rows with a surviving row between them were removed from under
\* another surviving row
ClearLinesExactSeen ==
    /\ locks > 0
    /\ last_lock.cleared = 2
    /\ IsFull(last_lock.locked[HEIGHT - 2])
    /\ IsFull(last_lock.locked[HEIGHT])
    /\ last_lock.locked[HEIGHT - 1] # EmptyRow
    /\ last_lock.locked[HEIGHT - 3] # EmptyRow
    /\ last_lock.locked[HEIGHT - 3] # last_lock.locked[HEIGHT - 1]

(***************************************************************************)
(* Properties of the codec.                                                *)
(***************************************************************************)
\* a square matrix turned clockwise k times, cell by cell
Turned(m, k) ==
    LET n == Len(m)
    IN  [i \in 1..n |-> [j \in 1..n |->
            CASE k = 0 -> m[i][j]
              [] k = 1 -> m[n + 1 - j][i]
              [] k = 2 -> m[n + 1 - i][n + 1 - j]
              [] k = 3 -> m[j][n + 1 - i]]]

\* C11  Codec round-trip: decoding the payload of an encoded state gives a
\* state (not None) with the same board cell for cell, the same piece
\* name, rotation, x and y, and the canonical shape turned clockwise
\* rotation times; the payload has 136 characters of the alphabet.
CodecRoundTrip ==
    /\ wire.encoded # <<>> =>
          /\ Len(wire.encoded) = 136
          /\ \A k \in 1..Len(wire.encoded) :
                \E i \in 1..64 : B64_ALPHABET[i] = wire.encoded[k]
    /\ wire.decoded =>
          /\ wire.state # NoState
          /\ wire.state.board = loc.board
          /\ wire.state.piece_name = loc.current_piece_name
          /\ wire.state.rotation = loc.current_rotation
          /\ wire.state.piece_x = loc.x
          /\ wire.state.piece_y = loc.y
          /\ wire.state.shape
                = Turned(TETROMINOES[loc.current_piece_name],
                         loc.current_rotation)

\* a Z piece turned three times at x = -4, y = 27 over a board with cells
\* of value 8 came back from the wire
CodecRoundTripSeen ==
    /\ wire.decoded
    /\ wire.state.piece_name = "Z"
    /\ wire.state.rotation = 3
    /\ wire.state.piece_x = -4
    /\ wire.state.piece_y = 27
    /\ wire.state.board[HEIGHT][1] = 8

(***************************************************************************)
(* Properties of the lock delay.                                           *)
(***************************************************************************)
\* the piece in play rests on a support, its delay started and its resets
\* used up, and the loop has run at the present instant
RestsSpent ==
    /\ last_lock = NoLock
    /\ loc.current_time = now
    /\ loc.lock_delay_resets = LOCK_DELAY_RESETS
    /\ loc.lock_delay_start # None
    /\ collide(loc.board, loc.shape, loc.x, loc.y + 1)

ResetsBounded ==
    /\ loc.lock_delay_resets \in 0..LOCK_DELAY_RESETS
    /\ RestsSpent /\ now - loc.lock_delay_start >= LOCK_DELAY =>
          /\ 10 * (now - loc.last_tick) < get_current_tick(loc.total_lines)
          /\ 10 * (now - loc.lock_delay_start)
                < 10 * LOCK_DELAY + get_current_tick(loc.total_lines)

\* with the resets used up the delay is not refreshed: it keeps its start
\* or is cleared by a downward step, until the piece locks or is held
NoRefresh ==
    /\ loc.lock_delay_resets = LOCK_DELAY_RESETS
    /\ loc'.lock_delay_resets = LOCK_DELAY_RESETS
    /\ loc.lock_delay_start # None
    /\ last_lock' = NoLock
    => loc'.lock_delay_start \in {loc.lock_delay_start, None}

CornerCounts(board, cx, cy) ==
    \/ cx < 0
    \/ cx >= WIDTH
    \/ cy >= HEIGHT
    \/ cy >= 0 /\ board[cy + 1][cx + 1] # 0

\* the corners of (x+1, y+1) that count as filled: top-left, top-right,
\* bottom-left, bottom-right
CornersOf(l) ==
    [tl |-> CornerCounts(l.board, l.x, l.y),
     tr |-> CornerCounts(l.board, l.x + 2, l.y),
     bl |-> CornerCounts(l.board, l.x, l.y + 2),
     br |-> CornerCounts(l.board, l.x + 2, l.y + 2)]

ThreeCorners(c) ==
    \/ c.tl /\ c.tr /\ c.bl
    \/ c.tl /\ c.tr /\ c.br
    \/ c.tl /\ c.bl /\ c.br
    \/ c.tr /\ c.bl /\ c.br

BothFront(c, rotation) ==
    CASE rotation = 0 -> c.tl /\ c.tr
      [] rotation = 1 -> c.tr /\ c.br
      [] rotation = 2 -> c.bl /\ c.br
      [] rotation = 3 -> c.tl /\ c.bl

\* C13  T-spin 3-corner rule: a T piece locks; if its last action was a
\* rotation, then with three corners filled and both front corners filled
\* it is a full T-spin, with three filled, not both front and kick index
\* not 4 a mini T-spin, with three filled and kick index 4 a full T-spin,
\* with fewer than three no spin; if its last action was not a rotation it
\* is no spin.
TSpinRule ==
    last_lock.before.current_piece_name = "T" =>
        LET b == last_lock.before
            a == last_lock.after
            c == CornersOf(b)
            front == BothFront(c, b.current_rotation)
            full == a.spin_type = "T-SPIN" /\ ~a.is_mini
            mini == a.spin_type = "T-SPIN" /\ a.is_mini
            none == a.spin_type = "" /\ ~a.is_mini
        IN  IF ~b.last_action_was_rotation THEN none
            ELSE /\ ThreeCorners(c) /\ front => full
                 /\ ThreeCorners(c) /\ ~front /\ b.last_rotation_kick # 4 => mini
                 /\ ThreeCorners(c) /\ b.last_rotation_kick = 4 => full
                 /\ ~ThreeCorners(c) => none

\* a T turned to point right locked against the left wall: the two corners
\* in the wall and one more are filled, one front corner is open, a mini
TSpinRuleSeen ==
    /\ last_lock.before.current_piece_name = "T"
    /\ last_lock.before.x = -1
    /\ last_lock.before.current_rotation = 1
    /\ last_lock.before.last_rotation_kick = 1
    /\ last_lock.after.spin_type = "T-SPIN"
    /\ last_lock.after.is_mini

(***************************************************************************)
(* Properties of the cancellation.                                         *)
(***************************************************************************)
\* the lines of the first k entries
LinesOfFirst(queue, k) == SumLines(SubSeq(queue, 1, k))

\* the entries of the front that n lines use up: the longest prefix holding
\* at most n lines
UsedUp(queue, n) ==
    CHOOSE k \in 0..Len(queue) :
        /\ LinesOfFirst(queue, k) <= n
        /\ k < Len(queue) => LinesOfFirst(queue, k + 1) > n

\* C14  Cancellation front: cancel(n) with n > 0 takes n lines off the
\* front of the queue, popping the entries that are used up and shrinking
\* the first one that is not; the entries behind keep their order, lines
\* and senders; n is added to buffer_pieces of every entry that remains;
\* if n is at least the queued total the queue is empty afterwards.
CancelFront ==
    locks = 1 /\ last_lock.cleared > 0 =>
        LET before == last_lock.before.garbage_queue
            after == garbage_queue[Me]
            n == last_lock.cleared
            k == UsedUp(before, n)
        IN  /\ Len(after) = Len(before) - k
            /\ n >= SumLines(before) => after = <<>>
            /\ SumLines(after) = IF n >= SumLines(before) THEN 0
                                 ELSE SumLines(before) - n
            /\ \A i \in 1..Len(after) :
                  /\ after[i].sender = before[k + i].sender
                  /\ after[i].buf = before[k + i].buf + n
                  /\ after[i].lines =
                        IF i = 1
                        THEN before[k + 1].lines - (n - LinesOfFirst(before, k))
                        ELSE before[k + i].lines

\* the queue [(3, 1), (2, 3)] after cancel(4) is [(1, 3 + 4)]
CancelFrontSeen ==
    /\ locks = 1
    /\ last_lock.cleared = 4
    /\ last_lock.before.garbage_queue =
          <<[lines |-> 3, buf |-> 1, sender |-> "b"],
            [lines |-> 2, buf |-> 3, sender |-> "c"]>>
    /\ garbage_queue[Me] = <<[lines |-> 1, buf |-> 7, sender |-> "c"]>>

(***************************************************************************)
(* Properties of the attack calculation.                                   *)
(***************************************************************************)
\* C15  Attack table: without back-to-back, calculate_garbage returns 0
\* for 0 lines; without perfect clear 0,1,2 for a mini T-spin and 2,4,6 for
\* a full T-spin of 1,2,3 lines, 0,1,2,4 for a mini S/Z/J/L/I spin and for
\* a plain clear of 1..4 lines; with perfect clear 10 for 1..4 lines.
AttackTable ==
    locks = 1 /\ ~loc.back_to_back =>
        LET n == loc.cleared
            others == {"S-SPIN", "Z-SPIN", "J-SPIN", "L-SPIN", "I-SPIN"}
        IN  /\ n = 0 => loc.base_garbage = 0
            /\ n \in 1..4 /\ loc.is_perfect => loc.base_garbage = 10
            /\ n \in 1..3 /\ ~loc.is_perfect /\ loc.spin_type = "T-SPIN"
                  /\ loc.is_mini
               => loc.base_garbage = <<0, 1, 2>>[n]
            /\ n \in 1..3 /\ ~loc.is_perfect /\ loc.spin_type = "T-SPIN"
                  /\ ~loc.is_mini
               => loc.base_garbage = <<2, 4, 6>>[n]
            /\ n \in 1..4 /\ ~loc.is_perfect /\ loc.spin_type \in others
                  /\ loc.is_mini
               => loc.base_garbage = <<0, 1, 2, 4>>[n]
            /\ n \in 1..4 /\ ~loc.is_perfect /\ loc.spin_type = ""
               => loc.base_garbage = <<0, 1, 2, 4>>[n]

\* a full T-spin triple without back-to-back is worth 6
AttackTableSeen ==
    /\ locks = 1
    /\ ~loc.back_to_back /\ ~loc.is_perfect
    /\ loc.spin_type = "T-SPIN" /\ ~loc.is_mini
    /\ loc.cleared = 3
    /\ loc.base_garbage = 6

\* the base of steps 2-5 for the classification
BaseOfSteps(l) ==
    IF l.cleared = 0 THEN 0
    ELSE IF l.is_perfect THEN 10
    ELSE IF l.spin_type = "T-SPIN"
    THEN (IF l.cleared > 3 THEN 0
          ELSE IF l.is_mini THEN <<0, 1, 2>>[l.cleared]
          ELSE <<2, 4, 6>>[l.cleared])
    ELSE IF l.spin_type # "" /\ ~l.is_mini THEN <<2, 4, 6, 8>>[l.cleared]
    ELSE <<0, 1, 2, 4>>[l.cleared]

\* C16  The back-to-back bonus applies to every clear kind: with
\* back-to-back active and the base of steps 2-5 above 0 the result is
\* base + 1 (11 for a perfect clear); a clear with base 0 gets no bonus.
BonusOnEveryKind ==
    locks = 1 /\ loc.back_to_back =>
        loc.base_garbage = IF BaseOfSteps(loc) > 0 THEN BaseOfSteps(loc) + 1
                           ELSE 0

\* C18  KO multiplier: for a base of at least 1 the outgoing count is
\* max(1, floor(base * (5 + ko_count) / 5)), for a base of 0 it is 0; it is
\* never smaller than the base.
KOMultiplier ==
    locks = 1 =>
        LET base == loc.base_garbage
            scaled == (base * (5 + ko_count[Me])) \div 5
        IN  /\ base >= 1 => loc.garbage_to_send
                               = IF scaled >= 1 THEN scaled ELSE 1
            /\ base <= 0 => loc.garbage_to_send = 0
            /\ loc.garbage_to_send >= base

\* a base of 4 sent with 3 KOs: floor(4 * 1.6) = 6
KOMultiplierSeen ==
    /\ locks = 1
    /\ loc.base_garbage = 4
    /\ ko_count[Me] = 3
    /\ loc.garbage_to_send = 6

HoldState(l) ==
    <<l.current_piece_name, l.shape, l.current_rotation, l.held_piece_name,
      l.piece_bag, l.x, l.y, l.lock_delay_start, l.lock_delay_resets,
      l.can_hold>>

HoldOnceStep ==
    /\ ~loc.can_hold /\ loc'.can_hold => Len(spawned') = Len(spawned) + 1
    /\ keys_read' = keys_read + 1 /\ ~loc.can_hold =>
          /\ HoldState(loc') = HoldState(loc)
          /\ spawned' = spawned
          /\ drawn' = drawn
    /\ keys_read' = keys_read + 1 /\ loc.can_hold =>
          /\ ~loc'.can_hold
          /\ loc'.held_piece_name = loc.current_piece_name
          /\ spawned' = spawned

\* C19  Hold at most once per spawned piece: a press of the hold key with
\* the hold-used flag clear exchanges the piece and sets the flag; a press
\* with the flag set changes neither piece, hold slot, bag, position nor
\* lock state; the flag is cleared only by a step that spawns a piece.
HoldOnce == [][HoldOnceStep]_vars

\* the hold key was pressed twice on the first piece: one piece was taken
\* from the bag, the first piece is in the hold slot, the flag is set
HoldOnceSeen ==
    /\ keys_read = 2
    /\ locks = 0
    /\ Len(spawned) = 1
    /\ Len(drawn) = 2
    /\ ~loc.can_hold
    /\ loc.held_piece_name = spawned[1]
    /\ loc.current_piece_name = drawn[2]

(***************************************************************************)
(* Properties of the end of the game.                                      *)
(***************************************************************************)
\* the process has left the loop, or is about to with its last publish
Over == is_dead[Me]

GameOverState ==
    /\ Over => pc[Me] \in {"publish", "exit", "done"}
    /\ Over /\ pc[Me] = "exit" =>
          \E f \in dir : /\ f.player = Me
                         /\ f.dead
                         /\ f.cum = cumulative_garbage_sent[Me]
    /\ Over /\ pc[Me] = "done" =>
          /\ highscore[Me] >= cumulative_garbage_sent[Me]
          /\ published[Me] = cumulative_garbage_sent[Me]

GameOverStep ==
    /\ Len(spawned') = Len(spawned) + 1
          /\ collide(loc'.board, loc'.shape, loc'.x, loc'.y + 1)
       => is_dead'[Me] /\ pc'[Me] = "publish" /\ ret'[Me] = "exit"
    /\ ~Over /\ is_dead'[Me] =>
          /\ Len(spawned') = Len(spawned) + 1
          /\ collide(loc'.board, loc'.shape, loc'.x, loc'.y + 1)
    /\ Over =>
          /\ loc' = loc
          /\ locks' = locks
          /\ spawned' = spawned
          /\ cumulative_garbage_sent' = cumulative_garbage_sent
          /\ is_dead' = is_dead
          /\ pc'[Me] # "loop"

\* C20  Game over: when the piece spawned after a lock collides at
\* (x, y + 1) the process is dead, publishes a state with isDead = 1 and
\* its cumulative counter, saves the high score and leaves the loop; from
\* then on no piece moves or locks, nothing is sent and the counter stays.
GameOver == []GameOverState /\ [][GameOverStep]_vars

\* the game ended after a quad was sent: the last state was published with
\* the counter 4, the high score file holds 4, the loop is left
GameOverSeen ==
    /\ is_dead[Me]
    /\ pc[Me] = "done"
    /\ locks = 3
    /\ cumulative_garbage_sent[Me] = 4
    /\ published[Me] = 4
    /\ highscore[Me] = 4
    /\ collide(loc.board, loc.shape, loc.x, loc.y + 1)

(***************************************************************************)
(* Properties of the ledger of received garbage.                           *)
(***************************************************************************)
\* the queue entries of one sender
EntriesFrom(queue, q) == SelectSeq(queue, LAMBDA e : e.sender = q)

LedgerStep ==
    \A q \in Peers :
        LET old == received_garbage_from[Observer][q]
            new == received_garbage_from'[Observer][q]
            seen == remote_state_cache'[Observer]
        IN  /\ new >= old
            /\ new # old => /\ q \in DOMAIN seen
                            /\ seen[q].cum > old
                            /\ seen[q].cum = new
            /\ q \in DOMAIN seen /\ seen[q].cum <= old =>
                  /\ new = old
                  /\ enqueued'[Observer][q] = enqueued[Observer][q]
                  /\ EntriesFrom(garbage_queue'[Observer], q)
                         = EntriesFrom(garbage_queue[Observer], q)

\* C21  Ledger monotonicity: the observer's ledger value of a peer never
\* decreases over the scans; it changes only to a counter the scan has seen
\* that is strictly greater, and a scan that sees an equal or a lower
\* counter changes neither the ledger nor the queue entries of that peer.
LedgerMonotone == [][LedgerStep]_vars

\* the ledger stands at 2; the peer has come back in a new session and the
\* observer has seen its lower counter, which left ledger and queue alone
LedgerMonotoneSeen ==
    /\ received_garbage_from[Observer]["b"] = 2
    /\ session["b"] = 1
    /\ "b" \in DOMAIN remote_state_cache[Observer]
    /\ ~remote_state_cache[Observer]["b"].dead
    /\ remote_state_cache[Observer]["b"].cum = 1
    /\ LinesFrom(garbage_queue[Observer], "b") = 2

(***************************************************************************)
(* Properties of the keys: soft drop, rotation, spawn position, hard drop. *)
(***************************************************************************)
\* the locals after the key, gravity included: those the piece locked
\* with if the iteration locked it, the locals of the loop otherwise
AfterIteration == IF locks' = locks + 1 THEN last_lock'.before ELSE loc'

SoftDropKeepsStep ==
    pc[Me] = "loop" /\ loc.last_action_was_rotation =>
        \/ AfterIteration.last_action_was_rotation
        \/ AfterIteration.x # loc.x
        \/ AfterIteration.can_hold # loc.can_hold

\* C22  Soft drop does not clear was_rotation: once the last successful
\* action is a rotation, the piece keeps that mark up to its lock through
\* every iteration that neither shifts nor holds it, an iteration with the
\* soft-drop key included, so that the lock is classified as a rotation.
SoftDropKeepsRotation == [][SoftDropKeepsStep]_vars

\* the kick table entry of a turn of the piece
KicksOf(l, to) ==
    (IF l.current_piece_name = "I" THEN SRS_KICKS_I ELSE SRS_KICKS_JLSTZ)
        [<<l.current_rotation, to>>]

\* what a rotation may change besides the lock-delay bookkeeping
TurnState(l) ==
    <<l.shape, l.current_rotation, l.x, l.y, l.last_rotation_kick,
      l.last_rotation_direction, l.last_action_was_rotation>>

TryRotateStep ==
    keys_read = 0 /\ keys_read' \in {KeyCode.rotate_cw, KeyCode.rotate_ccw} =>
        LET clockwise == keys_read' = KeyCode.rotate_cw
            to == (loc.current_rotation + (IF clockwise THEN 1 ELSE 3)) % 4
            turned == rotate_piece(TETROMINOES[loc.current_piece_name], to)
            kicks == KicksOf(loc, to)
            fits(i) == ~collide(loc.board, turned, loc.x + kicks[i][1],
                                loc.y + kicks[i][2])
        IN  IF loc.current_piece_name # "O" /\ \E i \in 1..Len(kicks) : fits(i)
            THEN \E i \in 1..Len(kicks) :
                    /\ fits(i)
                    /\ \A j \in 1..(i - 1) : ~fits(j)
                    /\ TurnState(loc') =
                          <<turned, to, loc.x + kicks[i][1], loc.y + kicks[i][2],
                            i - 1, IF clockwise THEN "cw" ELSE "ccw", TRUE>>
            ELSE /\ TurnState(loc') = TurnState(loc)
                 /\ loc'.lock_delay_start = loc.lock_delay_start
                 /\ loc'.lock_delay_resets = loc.lock_delay_resets

\* C23  try_rotation tests the kicks of the table entry (from, to) in list
\* order and commits the first at which the turned shape does not collide,
\* recording its index, the direction and the rotation mark; if every kick
\* collides, or the piece is O, shape, rotation, x, y, the last-rotation
\* record and the lock-delay state keep their values.
TryRotate == [][TryRotateStep]_vars

\* a counter-clockwise turn of a resting piece committed with the last
\* kick of its list, the four kicks before it colliding
TryRotateSeen ==
    /\ keys_read = KeyCode.rotate_ccw
    /\ loc.last_action_was_rotation
    /\ loc.last_rotation_kick = 4
    /\ loc.last_rotation_direction = "ccw"
    /\ loc.lock_delay_resets = 1

\* the step spawned a piece, or the hold key put a piece back at the top
Respawned ==
    \/ Len(spawned') = Len(spawned) + 1
    \/ pc[Me] = "loop" /\ loc.can_hold /\ ~loc'.can_hold

SpawnCentredStep ==
    Respawned =>
        /\ loc'.current_rotation = 0
        /\ loc'.shape = TETROMINOES[loc'.current_piece_name]
        /\ loc'.y = -1
        /\ loc'.x = (WIDTH - Cols(loc'.shape)) \div 2

\* C24  On every spawn, and on the re-spawn done by hold, the piece is put
\* at rotation 0 with y = -1 and x = (WIDTH - shape_width) / 2 in integer
\* arithmetic: 3 for I, 4 for O, 3 for T, S, Z, J and L.
SpawnCentred == [][SpawnCentredStep]_vars

HardDropStep ==
    keys_read = 0 /\ keys_read' = KeyCode.hard_drop =>
        LET landed == last_lock'.before
        IN  /\ locks' = locks + 1
            /\ landed.x = loc.x
            /\ landed.shape = loc.shape
            /\ landed.current_rotation = loc.current_rotation
            /\ landed.y >= loc.y
            /\ \A row \in loc.y..landed.y :
                  ~collide(loc.board, loc.shape, loc.x, row)
            /\ collide(loc.board, loc.shape, loc.x, landed.y + 1)
            /\ landed.y = get_ghost_y(loc.board, loc.shape, loc.x, loc.y)
            /\ last_lock'.locked =
                  lock(loc.board, loc.shape, loc.x, landed.y,
                       COLORS[loc.current_piece_name])

\* C25  Hard drop moves the piece straight down to the lowest row it
\* reaches without colliding, the row get_ghost_y gives, with x, shape and
\* rotation unchanged, and the piece is locked there in the same iteration
\* of the loop, whatever lock_delay_start and lock_delay_resets are.
HardDropLocks == [][HardDropStep]_vars

\* a piece in the air, no lock delay running and all resets used, was
\* dropped down a well to the floor and locked
HardDropLocksSeen ==
    /\ keys_read = KeyCode.hard_drop
    /\ locks = 1
    /\ last_lock.before.lock_delay_start = None
    /\ last_lock.before.lock_delay_resets = LOCK_DELAY_RESETS
    /\ last_lock.before.current_piece_name = "I"
    /\ last_lock.before.current_rotation = 1
    /\ last_lock.before.y = HEIGHT - 4
    /\ last_lock.cleared = 4

(***************************************************************************)
(* Properties of the garbage queue of the playing process.                 *)
(***************************************************************************)
\* no line has been cleared since the start of the game
NoClearYet == loc.total_lines = 0

\* the locks done since the lines of a sender were queued
LocksSince(q) == locks - queued_at[Me][q]

\* the lines queued from the senders whose entry is n locks old
LinesOfAge(n) ==
    SumOver([q \in Procs |-> IF LocksSince(q) = n THEN enqueued[Me][q] ELSE 0],
            Peers)

\* a row of garbage: every cell but one hole is filled with GARBAGE_COLOR
IsGarbageRow(row) ==
    \E hole_pos \in 0..(WIDTH - 1) : row = GarbageLine(hole_pos)

GarbageDelayState ==
    NoClearYet =>
        /\ \A i \in 1..Len(garbage_queue[Me]) :
              LET e == garbage_queue[Me][i]
              IN  /\ LocksSince(e.sender) < GARBAGE_BUFFER_PIECES
                  /\ e.buf = GARBAGE_BUFFER_PIECES - LocksSince(e.sender)
        /\ \A q \in Peers :
              enqueued[Me][q] > 0 /\ LocksSince(q) < GARBAGE_BUFFER_PIECES =>
                  \E i \in 1..Len(garbage_queue[Me]) :
                      /\ garbage_queue[Me][i].sender = q
                      /\ garbage_queue[Me][i].lines = enqueued[Me][q]
        /\ locks > 0 => last_lock.applied = LinesOfAge(GARBAGE_BUFFER_PIECES)

GarbageDelayStep ==
    Len(spawned') = Len(spawned) + 1 =>
        LET queue == garbage_queue[Me]
            after == garbage_queue'[Me]
            cleared == last_lock'.cleared
            applied == last_lock'.applied
            dropped == Len(queue) - Len(after)
        IN  /\ dropped >= 0
            /\ \A i \in 1..Len(after) :
                  /\ after[i].sender = queue[i + dropped].sender
                  /\ after[i].buf = queue[i + dropped].buf + cleared - 1
            /\ cleared = 0 =>
                  /\ after = SelectSeq(ProcessOnPlacement(queue),
                                       LAMBDA e : e.buf >= 1)
                  /\ applied = SumLines(SelectSeq(queue, LAMBDA e : e.buf <= 1))
            /\ \A r \in 1..(HEIGHT - applied) :
                  loc'.board[r] = last_lock'.swept[r + applied]
            /\ \A r \in (HEIGHT - applied + 1)..HEIGHT :
                  IsGarbageRow(loc'.board[r])

\* C26  Garbage delay: lines queued with GARBAGE_BUFFER_PIECES = 3 go into
\* the board at the third lock after they were queued when no line is
\* cleared in between, and stay in the queue until then; a lock lowers the
\* buffer of every entry by 1 (after a clear of n lines has raised it by
\* n), and the entries that reach 0 at one lock are removed and their lines
\* injected together, as that many garbage rows at the bottom of the board.
GarbageDelay == []GarbageDelayState /\ [][GarbageDelayStep]_vars

\* the lines of b, queued before the first lock, went in at the third
\* lock, the line of c, queued after the first lock, at the fourth
GarbageDelaySeen ==
    /\ NoClearYet
    /\ locks = 4
    /\ queued_at[Me]["b"] = 0 /\ enqueued[Me]["b"] = 2
    /\ queued_at[Me]["c"] = 1 /\ enqueued[Me]["c"] = 1
    /\ last_lock.applied = 1
    /\ garbage_queue[Me] = <<>>
    /\ \A r \in (HEIGHT - 2)..HEIGHT : IsGarbageRow(loc.board[r])
    /\ ~IsGarbageRow(loc.board[HEIGHT - 3])

QueueEntriesSound(queue) ==
    \A i \in 1..Len(queue) : queue[i].lines >= 0 /\ queue[i].buf >= 1

\* C27  Garbage queue invariant: whatever the sequence of scans that queue
\* lines, clears that cancel them and locks that age and drain the queue,
\* every entry has lines >= 0, and no entry is left in the queue with
\* buffer pieces <= 0 by the lock that brought it there: after every lock
\* all entries have at least 1.
QueueSound == \A p \in Procs : QueueEntriesSound(garbage_queue[p])

\* two lines were queued, one was cancelled by a single, and two more locks
\* have brought the entry to its last buffer piece
QueueSoundSeen ==
    /\ enqueued[Observer]["b"] = 2
    /\ received_garbage_from[Observer]["b"] = 2
    /\ Len(garbage_queue[Observer]) = 1
    /\ garbage_queue[Observer][1].lines = 1
    /\ garbage_queue[Observer][1].buf = 1
    /\ \E f \in dir : f.player = "b" /\ f.cum = 2

\* the lock sends: the step ends in the immediate publish of lines 1598-1599
SendingLock == pc[Me] = "loop" /\ pc'[Me] = "publish" /\ ret'[Me] = "lock_sent"

\* C28 as stated  Order of steps in a garbage-sending lock: the queue is
\* reduced, aged and drained before the lock's state is published.
QueueBeforePublish ==
    [][SendingLock =>
          garbage_queue'[Me] = QueueAfterLock(garbage_queue[Me], loc'.cleared)]_vars

LockOrderStep ==
    /\ SendingLock =>
          /\ locks' = locks + 1
          /\ loc'.cleared > 0
          /\ loc'.board = last_lock'.swept
          /\ cumulative_garbage_sent'[Me] =
                cumulative_garbage_sent[Me] + loc'.garbage_to_send
          /\ loc'.garbage_to_send > 0
          /\ loc'.back_to_back = loc'.is_difficult
          /\ garbage_queue'[Me] = garbage_queue[Me]
          /\ spawned' = spawned
          /\ OwnFiles(Me, dir') = {}
    /\ pc[Me] = "publish" /\ ret[Me] = "lock_sent" /\ pc'[Me] # pc[Me] =>
          /\ pc'[Me] = "lock_sent"
          /\ OwnFiles(Me, dir') =
                {StateFile(Me, now, FALSE, cumulative_garbage_sent[Me])}
          /\ garbage_queue'[Me] = garbage_queue[Me]
          /\ loc' = loc
          /\ spawned' = spawned
    /\ pc[Me] = "lock_sent" /\ pc'[Me] # pc[Me] =>
          /\ garbage_queue'[Me] = QueueAfterLock(garbage_queue[Me], loc.cleared)
          /\ last_lock'.applied = 0
          /\ loc'.board = loc.board
          /\ Len(spawned') = Len(spawned) + 1
          /\ dir' = dir \/ pc'[Me] = "publish"

\* C28  Order of steps in a garbage-sending lock: classify, lock, clear,
\* compute outgoing, update back-to-back, publish with the updated
\* cumulative counter, then cancel, age and drain the queue, then spawn.
\* The state published for the lock carries the updated counter and the
\* board after the clear; the queue is processed only after the publish,
\* and it drains nothing at such a lock, so no garbage row is added.
LockOrder == [][LockOrderStep]_vars

\* a quad with two entries waiting: the state with the counter 4 is on
\* file, the queue still as it was before the lock, no piece spawned yet
LockOrderSeen ==
    /\ pc[Me] = "lock_sent"
    /\ locks = 1
    /\ Len(spawned) = 1
    /\ loc.cleared = 4
    /\ \E f \in dir : f.player = Me /\ f.cum = 4 /\ ~f.dead
    /\ Len(garbage_queue[Me]) = 2
    /\ \A i \in 1..2 : garbage_queue[Me][i].buf = GARBAGE_BUFFER_PIECES

\* the files of the other players an observer's scan can parse
Foreign(files) == {f \in files : Parses(f) /\ f.player # Observer}

\* the age of a file or of a cached state at the present moment
Age(f) == now - f.ts

\* a step of the observer that takes files away: its scan
ObserverRemoves == pc' = pc /\ dir' # dir /\ dir' \subseteq dir

\* the observer took a state into its cache, or kept it through a scan
Returned(q) ==
    /\ q \in DOMAIN remote_state_cache'[Observer]
    /\ remote_state_cache'[Observer] # remote_state_cache[Observer]

StaleCleanupStep ==
    /\ \A q \in Peers : Returned(q) =>
          now - remote_state_cache'[Observer][q].ts
             <= (IF remote_state_cache'[Observer][q].dead THEN 300 ELSE 20)
    /\ \A f \in dir \ dir' : pc' = pc =>
          /\ f.player # Observer
          /\ Age(f) > (IF f.dead THEN 300 ELSE 50)
    /\ \A f \in Foreign(dir) :
          Age(f) <= (IF f.dead THEN 300 ELSE 50) /\ pc' = pc => f \in dir'
    /\ ObserverRemoves =>
          \A f \in Foreign(dir) :
              Age(f) > (IF f.dead THEN 300 ELSE 50) => f \notin dir'
    /\ \A q \in Peers :
          now - last_state_publish[q] <= 50 /\ pc' = pc =>
              OwnFiles(q, dir') = OwnFiles(q, dir)

\* C29  Stale and cleanup thresholds under interleaving: a scan returns no
\* state older than 2 s (alive) or 30 s (dead); it removes another
\* player's file only when the file is older than 5 s (alive) or 30 s
\* (dead) and leaves a stale file below that threshold in place; so no
\* scan removes the file of a publisher that published within the last 5 s.
StaleCleanup == [][StaleCleanupStep]_vars

\* the peer published at 0.1 s and then stalled; a scan past 5.1 s has
\* removed its file
StaleCleanupSeen ==
    /\ pc["b"] = "loop"
    /\ ~is_dead["b"]
    /\ last_state_publish["b"] = 1
    /\ OwnFiles("b", dir) = {}
    /\ now = STATE_CLEANUP_TIMEOUT + 2

\* the cached peers whose cached timestamp is within its timeout
WithinTimeout(cache) ==
    {q \in DOMAIN cache : now - cache[q].ts <= (IF cache[q].dead THEN 300 ELSE 20)}

\* what the scan makes of a listing that failed
CacheOnFailure ==
    RemoteStates(remote_state_cache[Observer], NoStates, now)

\* a failed listing returns the cached peers within their timeout with
\* their last state, and the loop credits no garbage and no KO for them
CacheState ==
    /\ DOMAIN CacheOnFailure = WithinTimeout(remote_state_cache[Observer])
    /\ \A q \in DOMAIN CacheOnFailure :
          CacheOnFailure[q] = remote_state_cache[Observer][q]
    /\ Attackers(CacheOnFailure, received_garbage_from[Observer]) = {}
    /\ NewLedger(CacheOnFailure, received_garbage_from[Observer])
          = received_garbage_from[Observer]
    /\ NewDead(CacheOnFailure, known_dead_players[Observer]) = {}

\* the peer's file is absent from the directory, or too old to be read
Absent(q) == \A f \in ScanAccepts(Observer, dir, now) : f.player # q

CacheStep ==
    \A q \in DOMAIN remote_state_cache[Observer] :
        /\ q \notin DOMAIN remote_state_cache'[Observer] =>
              q \notin WithinTimeout(remote_state_cache[Observer])
        /\ Absent(q) /\ q \in WithinTimeout(remote_state_cache[Observer]) =>
              /\ q \in DOMAIN remote_state_cache'[Observer]
              /\ remote_state_cache'[Observer][q] = remote_state_cache[Observer][q]
              /\ received_garbage_from'[Observer][q] = received_garbage_from[Observer][q]
              /\ enqueued'[Observer][q] = enqueued[Observer][q]
              /\ (q \in known_dead_players'[Observer]) = (q \in known_dead_players[Observer])
        /\ (\A r \in Peers : Absent(r)) => ko_count'[Observer] = ko_count[Observer]

\* C30  Peer cache: when a scan's listing fails, or the scan falls between
\* a publisher's delete and create, the scan still returns every cached
\* peer whose cached timestamp is within its timeout (2 s alive, 30 s
\* dead) with its last state and changes neither the ledger nor the KO
\* count; a cached peer is dropped only when its timestamp exceeds the
\* timeout.
PeerCache == []CacheState /\ [][CacheStep]_vars

\* the observer has credited the peer's line; the peer is between its
\* delete and its create, and the cache still holds its last state
PeerCacheSeen ==
    /\ pc["b"] = "publish"
    /\ ret["b"] = "loop"
    /\ OwnFiles("b", dir) = {}
    /\ "b" \in DOMAIN remote_state_cache[Observer]
    /\ remote_state_cache[Observer]["b"].cum = 1
    /\ received_garbage_from[Observer]["b"] = 1
    /\ now - remote_state_cache[Observer]["b"].ts = 1

(***************************************************************************)
(* Properties of the spins of S, Z, J, L, I and O.                         *)
(***************************************************************************)
\* C31  All-spin classification: a lock of an S, Z, J, L or I piece is a
\* <Piece>-SPIN with is_mini exactly when the last successful action before
\* the lock was a rotation that used a kick index above 0; after a rotation
\* with kick index 0 or a shift it is a plain landing; an O piece is never
\* a spin.
AllSpinRule ==
    locks = 1 =>
        LET name == last_lock.before.current_piece_name
            a == last_lock.after
        IN  IF name \in AllSpinPieces /\ keys_read = 2
            THEN a.spin_type = name \o "-SPIN" /\ a.is_mini
            ELSE a.spin_type = "" /\ ~a.is_mini

(***************************************************************************)
(* Properties of the scan: self, first sight, dead peers, KOs.             *)
(***************************************************************************)
\* C32  A process never attacks or KOs itself: its scans skip the files
\* with its own player id, so its own counter and dead flag never reach
\* its cache, its ledger, its garbage queue or its KO count.
NoSelfAttack ==
    \A p \in Procs :
        /\ p \notin DOMAIN remote_state_cache[p]
        /\ received_garbage_from[p][p] = 0
        /\ enqueued[p][p] = 0
        /\ \A i \in 1..Len(garbage_queue[p]) : garbage_queue[p][i].sender # p
        /\ p \notin known_dead_players[p]
        /\ ko_count[p] = Cardinality(known_dead_players[p])

\* the observer was killed after it quit with a counter above 0, is back
\* under its name and has scanned the directory that holds its old
\* dead-state file next to the attack of peer b
NoSelfAttackSeen ==
    /\ session[Observer] = 1
    /\ pc[Observer] = "loop"
    /\ \E f \in dir : f.player = Observer /\ f.dead /\ f.cum > 0
    /\ "b" \in DOMAIN remote_state_cache[Observer]
    /\ received_garbage_from[Observer]["b"] > 0
    /\ cumulative_garbage_sent[Observer] = 0

\* the observer takes an alive state of the peer with counter c > 0 into
\* its cache
TakesIn(q, c) ==
    /\ q \in DOMAIN remote_state_cache'[Observer]
    /\ ~remote_state_cache'[Observer][q].dead
    /\ remote_state_cache'[Observer][q].cum = c
    /\ c > 0

\* the counter of the peer the observer has in its cache (0: none)
CachedCounter(q) ==
    IF q \in DOMAIN remote_state_cache[Observer]
    THEN remote_state_cache[Observer][q].cum ELSE 0

\* the lines the observer enqueues from the peer in the step
EnqueuedInStep(q) == enqueued'[Observer][q] - enqueued[Observer][q]

FirstSightStep ==
    \A q \in Peers, c \in 1..MaxCum :
        TakesIn(q, c) =>
            IF received_garbage_from[Observer][q] = 0
            THEN /\ EnqueuedInStep(q) = c
                 /\ received_garbage_from'[Observer][q] = c
            ELSE /\ 0 < CachedCounter(q) /\ CachedCounter(q) < c =>
                      EnqueuedInStep(q) = c - CachedCounter(q)
                 /\ CachedCounter(q) > c => EnqueuedInStep(q) > 0

\* C33  First sight of a peer: an observer whose ledger has nothing for an
\* alive peer and that sees it with the counter C > 0 enqueues C lines (the
\* whole backlog) and sets the ledger to C; every send of the peer after
\* that is enqueued exactly once: a counter that rose above the one seen
\* last brings its increase, and a counter above 0 that fell below the one
\* seen last (the sends of a new session of the peer) brings lines too.
FirstSight == [][FirstSightStep]_vars

\* the state of the peer the observer's scan returns is a dead one
ReturnsDead(q) ==
    /\ q \in DOMAIN remote_state_cache'[Observer]
    /\ remote_state_cache'[Observer][q].dead

OnlyAliveStep ==
    \A q \in Peers :
        ReturnsDead(q) =>
            /\ received_garbage_from'[Observer][q] = received_garbage_from[Observer][q]
            /\ enqueued'[Observer][q] = enqueued[Observer][q]
            /\ LinesFrom(garbage_queue'[Observer], q)
                  = LinesFrom(garbage_queue[Observer], q)

\* C34  Only alive peers attack: a peer record with isDead = 1 never causes
\* garbage to be enqueued and never changes the ledger, whatever counter it
\* carries, a counter above the ledger value included.
OnlyAliveAttack == [][OnlyAliveStep]_vars

\* the peer sent with its last lock and died before the observer looked:
\* the dead record carries a counter above the ledger, the KO is credited
\* and nothing is enqueued
OnlyAliveAttackSeen ==
    /\ "b" \in DOMAIN remote_state_cache[Observer]
    /\ remote_state_cache[Observer]["b"].dead
    /\ remote_state_cache[Observer]["b"].cum > received_garbage_from[Observer]["b"]
    /\ "b" \in known_dead_players[Observer]
    /\ garbage_queue[Observer] = <<>>

\* the peers the observer credits as KOs in the step
Credited == known_dead_players'[Observer] \ known_dead_players[Observer]

\* the last state of the peer the observer saw was an alive one
SeenAlive(q) ==
    /\ q \in DOMAIN remote_state_cache[Observer]
    /\ ~remote_state_cache[Observer][q].dead

\* C35 as stated  A KO is credited only for a peer going from alive to
\* dead during the observer's session: the observer saw the peer with
\* isDead = 0 in an earlier scan and now sees isDead = 1; a peer whose
\* first observed record is already dead is not credited.
KOOnlyAfterAlive ==
    [][\A q \in Credited : SeenAlive(q) /\ ReturnsDead(q)]_vars

KOForDeadStep ==
    /\ \A q \in Peers :
          q \in Credited <=>
              ReturnsDead(q) /\ q \notin known_dead_players[Observer]
    /\ ko_count'[Observer] = ko_count[Observer] + Cardinality(Credited)

\* C35  A KO is credited for a peer the observer sees dead and has not
\* credited before in its session: the KO count is incremented for the
\* peer exactly when a scan returns it with isDead = 1 and it is not in the
\* known-dead set, whether the observer saw it alive before or not; a peer
\* whose first observed record is already dead is credited.
KOForDead == [][KOForDeadStep]_vars

\* the peer quit at once: its first and only record was a dead one, and
\* the observer has credited it
KOForDeadSeen ==
    /\ now = 0
    /\ session["b"] = 0
    /\ cumulative_garbage_sent["b"] = 0
    /\ "b" \in DOMAIN remote_state_cache[Observer]
    /\ remote_state_cache[Observer]["b"].dead
    /\ "b" \in known_dead_players[Observer]
    /\ ko_count[Observer] = 1

(***************************************************************************)
(* Properties of the bag.                                                  *)
(***************************************************************************)
\* the names in a sequence
NamesIn(seq) == {seq[i] : i \in 1..Len(seq)}

\* the draws from the fill of the bag that is in use
DrawnOfFill == SubSeq(drawn, 7 * (Len(drawn) \div 7) + 1, Len(drawn))

\* the bag holds what is left of its fill, or a whole new fill
BagState ==
    LET bag == loc.piece_bag
    IN  /\ Len(bag) \in 1..7
        /\ Cardinality(NamesIn(bag)) = Len(bag)
        /\ NamesIn(bag) \subseteq PieceSet
        /\ Len(bag) = 7 - Len(DrawnOfFill)
        /\ NamesIn(bag) \cap NamesIn(DrawnOfFill) = {}
        /\ \A k \in 1..(Len(drawn) \div 7) :
              NamesIn(SubSeq(drawn, 7 * k - 6, 7 * k)) = PieceSet

\* a piece leaves the bag from the front; the bag is filled when it is empty
BagStep ==
    LET bag == loc.piece_bag
    IN  IF drawn' = drawn THEN loc'.piece_bag = bag
        ELSE /\ drawn' = Append(drawn, Head(bag))
             /\ IF Len(bag) > 1 THEN loc'.piece_bag = Tail(bag)
                ELSE NamesIn(loc'.piece_bag) = PieceSet

\* C36  Bag discipline: pieces leave the bag only from the front and the
\* bag is refilled only when it is empty, with a permutation of the seven
\* names; so the draws 7k+1..7k+7, by a spawn or by a hold into the empty
\* slot, hold each name exactly once, and the bag never holds a name twice.
BagDiscipline == []BagState /\ [][BagStep]_vars

\* the last piece of the first fill left the bag by a hold into the empty
\* slot, and the bag is the whole second fill
BagDisciplineSeen ==
    /\ Len(drawn) = 7
    /\ Len(spawned) = 6
    /\ loc.current_piece_name = drawn[7]
    /\ loc.held_piece_name = drawn[6]
    /\ Len(loc.piece_bag) = 7

(***************************************************************************)
(* Properties of the active piece.                                         *)
(***************************************************************************)
\* C37  In every state of the game loop the active piece does not overlap
\* an occupied cell of the board: collide(board, shape, x, y) is false
\* after every spawn that does not end the game, after every hold, move,
\* rotation and gravity step, and after a garbage injection and the spawn.
PieceFree ==
    pc[Me] = "loop" /\ ~is_dead[Me] =>
        ~collide(loc.board, loc.shape, loc.x, loc.y)

\* C38  Every spawned piece eventually locks: whatever moves and rotations
\* the player makes, with the loop running and gravity ticks firing, the
\* piece in play locks after finitely many ticks, also when rotations with
\* upward kicks lift it off its support and the delay starts anew.
PieceLocks == <>(last_lock # NoLock)

\* C39  A peer's death is eventually seen: when the peer tops out or quits
\* while the observer keeps scanning, the observer eventually sees the peer
\* with isDead = 1 and credits the KO (the peer joins its known-dead set);
\* the dying process's cleanup of its own state file does not prevent it.
DeathSeen == [](is_dead["b"] => <>("b" \in known_dead_players[Observer]))

====
